---- MODULE Spec2Model ----
(***************************************************************************)
(* buffstreams: length-prefixed message framing over TCP.                  *)
(*                                                                         *)
(* The model covers the TCPConn read/write state machine, the Manager's    *)
(* Write with its reopen-on-error, and the TCPListener accept loop with    *)
(* its per-connection receive loops and shutdown.                          *)
(***************************************************************************)
EXTENDS Integers, Sequences, FiniteSets, TLC

\* ------------------------------------------------------------------ bounds

\* Sockets the operating system hands out in one run (dials and accepts).
MaxSockets == 2

\* Write / Manager.Write calls one caller makes in one run.
MaxCalls == 2

\* Write calls one goroutine makes when several share a connection.
MaxConcCalls == 1

\* Connections the accept loop hands to a receive loop in one run.
MaxHandlers == 2

\* Bytes a client sends on one connection in one run.
MaxSent == 2
MaxFrameSent == 3

\* WriteTo calls the goroutines of one BuffManager make in one run.
MaxWriteToCalls == 2

\* ----------------------------------------------------------------- domains

\* Goroutines of the application that call into a dialed connection.
Callers == {1, 2}

\* The single caller of the sequential specification.
SeqCallers == {1}

\* Addresses handed to Manager.Dial.
Addresses == {"a"}

\* Payloads handed to Write.
Payloads == {<<>>, <<7>>, <<8, 9>>}

\* Configured maximum message sizes (one-byte and two-byte headers).
MaxMessageSizes == {1, 256}

\* Most bytes one socket write call takes: a transport that takes one byte
\* per call, and one that takes any frame of the model whole.
ChunkSizes == {1, 8}

\* Byte values a client puts on the wire.
ClientBytes == {0, 1, 2}

SockIds == 1..MaxSockets

HandlerIds == 1..MaxHandlers

\* c.socket before any socket was assigned (a nil *net.TCPConn).
NoSocket == 0

\* A sync.Mutex or sync.RWMutex that no goroutine holds.
Unlocked == 0

\* A byte read past the end of a backing array.
Garbage == 256

Nil == "nil"
ErrAlreadyOpened == "ErrAlreadyOpened"
ErrNotOpened == "ErrNotOpened"
\* net: "use of closed network connection"
ErrClosed == "use of closed network connection"
\* net: write on a connection the peer has reset
ErrReset == "connection reset by peer"
\* net: dial refused
ErrDial == "connection refused"
EOF == "EOF"
ErrCallback == "callback failed"
\* What the ListenCallback of the application can return.
CallbackResults == {Nil, ErrCallback}
ErrZeroBytesReadHeader == "0 Bytes parsed from header. Connection Closed"
ErrLessThanZeroBytesReadHeader ==
    "Less than zero bytes parsed from header. Connection Closed"

Min(a, b) == IF a < b THEN a ELSE b

\* ------------------------------------------------------------ header codec

RECURSIVE Log2Floor(_)
Log2Floor(n) == IF n <= 1 THEN 0 ELSE 1 + Log2Floor(n \div 2)

CeilDiv(a, b) == (a + b - 1) \div b

\* A width computed from the exponent of the highest bit alone.
BitLengthFromExponent(messageSize) == CeilDiv(Log2Floor(messageSize), 8)

\* math.Ceil(math.Floor(math.Log2(bytes)+1) / 8.0), for messageSize >= 1
messageSizeToBitLength(messageSize) == CeilDiv(Log2Floor(messageSize) + 1, 8)

RECURSIVE Pow256(_)
Pow256(k) == IF k = 0 THEN 1 ELSE 256 * Pow256(k - 1)

\* The length fits an unsigned integer of bufferSize bytes.
Fits(value, bufferSize) == value < Pow256(bufferSize)

\* value as an unsigned little-endian integer of exactly bufferSize bytes
intToByteArray(value, bufferSize) ==
    [i \in 1..bufferSize |-> (value \div Pow256(i - 1)) % 256]

RECURSIVE LEValue(_)
LEValue(bytes) ==
    IF bytes = <<>> THEN 0 ELSE Head(bytes) + 256 * LEValue(Tail(bytes))

\* <<length, bytes consumed>>
byteArrayToUInt32(bytes) == <<LEValue(bytes), Len(bytes)>>

\* uint16(len(data)): the conversion keeps the low 16 bits.
UInt16(value) == value % 65536

\* binary.LittleEndian.PutUint16 panics on a buffer shorter than 2 bytes.
PutUint16Panics(bufferSize) == bufferSize < 2

\* UInt16ToByteArray: make([]byte, bufferSize), then PutUint16 stores the
\* value in the first two bytes (for a buffer PutUint16 does not panic on).
UInt16ToByteArray(value, bufferSize) ==
    [i \in 1..bufferSize |->
        IF i = 1 THEN value % 256
        ELSE IF i = 2 THEN (value \div 256) % 256
        ELSE 0]

\* header ++ payload, as TCPConn.Write builds it
Frame(data, headerByteSize) ==
    intToByteArray(Len(data), headerByteSize) \o data

\* ------------------------------------------------------------------- state

VARIABLES
    maxMessageSize,     \* TCPConnConfig.MaxMessageSize in force
    chunk,              \* bytes the transport takes per socket write call
    reachable,          \* a dial to the address succeeds
    dialedConnections,  \* Manager.dialedConnections: the addresses stored
    conn,               \* conn[c]: the TCPConn stored for address c
    sock,               \* sock[s]: one OS socket
    callers,            \* callers[t]: position and locals of goroutine t
    listener,           \* the TCPListener, its accept loop and its Close
    handlers,           \* handlers[h]: one accepted TCPConn and its readLoop
    listeningSockets,   \* Manager.listeningSockets: the addresses stored
    dialerLock,         \* Manager.dialerLock: the goroutine holding it
    listenerLock,       \* Manager.listenerLock: the goroutine holding it
    panicked,           \* the process died of a run-time panic
    codec               \* one call of a constructor or of a header function

\* The state of the dialing side, and of the listening side.
dialVars == <<chunk, reachable, dialedConnections, conn, callers>>

listenVars == <<listener, handlers>>

\* The listener map and the two locks of the Manager.
managerVars == <<listeningSockets, dialerLock, listenerLock>>

vars == <<maxMessageSize, sock, panicked, dialVars, listenVars, managerVars,
          codec>>

headerByteSize == messageSizeToBitLength(maxMessageSize)

\* A socket: unused, pending (connected, not yet accepted), open or closed
\* on this side; what this side wrote (wire) and what the peer sent and
\* this side has not read yet (inbound); late: the client connected after
\* the listener's Close was called.
FreshSocket == [state |-> "unused", peerGone |-> FALSE, wire |-> <<>>,
                inbound |-> <<>>, sent |-> 0, peerClosed |-> FALSE,
                late |-> FALSE]

\* newTCPConn: no socket yet, outgoingDataBuffer = make([]byte, maxMessageSize)
FreshConn == [socket |-> NoSocket,
              outgoingDataBuffer |-> [ptr |-> [i \in 1..maxMessageSize |-> 0],
                                      len |-> maxMessageSize]]

IdleCaller == [pc |-> "idle", op |-> "none", c |-> "a", data |-> <<>>,
               toWriteLen |-> 0, totalBytesWritten |-> 0, writeError |-> Nil,
               calls |-> 0, ret |-> [n |-> 0, err |-> Nil],
               socket |-> NoSocket, toWrite |-> <<>>, persist |-> TRUE]

\* ListenTCP: the socket is bound, nothing is accepted yet.
FreshListener == [acceptPc |-> "inert", c |-> NoSocket,
                  shutdownChannel |-> "open", shutdownGroup |-> 0,
                  closePc |-> "idle"]

\* An accepted connection that does not exist yet.
NoHandler == [pc |-> "none", socket |-> NoSocket,
              incomingHeaderBuffer |-> <<>>, msgLength |-> 0,
              dataBuffer |-> <<>>, n |-> 0, err |-> Nil,
              watcher |-> "none", delivered |-> <<>>,
              callbackErrs |-> <<>>]

\* No constructor and no header function is being called.
IdleCodec == [op |-> "none", pc |-> "done", messageSize |-> 0, value |-> 0,
              headerByteSize |-> 0, bytes |-> <<>>, decoded |-> 0,
              err |-> Nil, made |-> "nothing", maxMessageSize |-> 0]

ListenIdle ==
    /\ listener = FreshListener
    /\ handlers = [h \in HandlerIds |-> NoHandler]

\* NewManager: an empty listener map, both locks free.
ManagerIdle ==
    /\ listeningSockets = {}
    /\ dialerLock = Unlocked
    /\ listenerLock = Unlocked

ConnInit ==
    /\ ListenIdle
    /\ ManagerIdle
    /\ codec = IdleCodec
    /\ maxMessageSize \in MaxMessageSizes
    /\ chunk \in ChunkSizes
    /\ reachable = TRUE
    /\ dialedConnections = {}
    /\ conn = [c \in Addresses |-> FreshConn]
    /\ sock = [s \in SockIds |-> FreshSocket]
    /\ callers = [t \in Callers |-> IdleCaller]
    /\ panicked = FALSE

\* --------------------------------------------------------------- sockets

UnusedSockets == {s \in DOMAIN sock : sock[s].state = "unused"}

\* The socket the next successful dial or accept returns.
NextSocket == CHOOSE s \in UnusedSockets : \A r \in UnusedSockets : s <= r

IsOpen(s) == s # NoSocket /\ sock[s].state = "open"

\* net.TCPConn.Close: nil the first time, an error on a closed socket.
\* Bytes received and not read are dropped with the socket.
SocketCloseErr(s) == IF IsOpen(s) THEN Nil ELSE ErrClosed

SocketClosed(sk, s) ==
    IF s # NoSocket /\ sk[s].state = "open"
    THEN [sk EXCEPT ![s].state = "closed", ![s].inbound = <<>>]
    ELSE sk

\* ------------------------------------------------------------- TCPConn

\* func (c *TCPConn) Close() error { return c.socket.Close() }
CloseErr(c) == SocketCloseErr(conn[c].socket)

CloseEffect(sk, c) == SocketClosed(sk, conn[c].socket)

\* Operation op of caller t returns (n, err); the goroutine is idle again.
\* The locals of the finished call are dead.
Return(t, op, n, err) ==
    [callers EXCEPT ![t] = [IdleCaller EXCEPT !.op = op, !.c = callers[t].c,
                                !.calls = callers[t].calls,
                                !.ret = [n |-> n, err |-> err]]]

\* c.outgoingDataBuffer[from:], read from the field as it is now: the bytes
\* of the backing array up to the stored length.
SliceFrom(b, from) ==
    [i \in 1..(b.len - from) |->
        IF from + i <= Len(b.ptr) THEN b.ptr[from + i] ELSE Garbage]

\* The bytes of one socket write call, as they lie on the wire: each byte
\* with the caller and the call that wrote it.
Written(t, bytes) ==
    [i \in 1..Len(bytes) |->
        [by |-> t, call |-> callers[t].calls, b |-> bytes[i]]]

\* net.DialTCP inside open(): the socket a successful dial assigns.
Dialed(sk) == [sk EXCEPT ![NextSocket].state = "open"]

\* A dial can be modelled: it fails, or a socket is left to hand out.
CanDial == ~reachable \/ UnusedSockets # {}

\* A Manager.Dial that would dial and store whatever the map holds.
DialAgain(t, a) ==
    /\ ~panicked
    /\ callers[t].pc = "idle"
    /\ reachable
    /\ UnusedSockets # {}
    /\ sock' = Dialed(sock)
    /\ conn' = [conn EXCEPT ![a] = [FreshConn EXCEPT !.socket = NextSocket]]
    /\ dialedConnections' = dialedConnections \cup {a}
    /\ callers' = Return(t, "Dial", 0, Nil)
    /\ UNCHANGED <<codec, maxMessageSize, managerVars, listenVars, chunk, reachable, panicked>>

\* Manager.Dial: DialTCP (newTCPConn, open) under the dialer lock.
Dial(t, a) ==
    /\ ~panicked
    /\ callers[t].pc = "idle"
    /\ CanDial
    /\ IF a \in dialedConnections
       THEN /\ callers' = Return(t, "Dial", 0, ErrAlreadyOpened)
            /\ UNCHANGED <<dialedConnections, conn, sock>>
       ELSE IF reachable
       THEN /\ sock' = Dialed(sock)
            /\ conn' = [conn EXCEPT ![a] =
                            [FreshConn EXCEPT !.socket = NextSocket]]
            /\ dialedConnections' = dialedConnections \cup {a}
            /\ callers' = Return(t, "Dial", 0, Nil)
       ELSE /\ callers' = Return(t, "Dial", 0, ErrDial)
            /\ UNCHANGED <<dialedConnections, conn, sock>>
    /\ UNCHANGED <<codec, maxMessageSize, managerVars, listenVars, chunk, reachable, panicked>>

\* A Close that would crash on a socket that is closed already.
CloseTwicePanics(t, a) ==
    /\ ~panicked
    /\ callers[t].pc = "idle"
    /\ a \in dialedConnections
    /\ panicked' = (CloseErr(a) # Nil)
    /\ callers' = Return(t, "Close", 0, Nil)
    /\ sock' = CloseEffect(sock, a)
    /\ UNCHANGED <<codec, maxMessageSize, managerVars, listenVars, chunk, reachable, dialedConnections, conn>>

\* Manager.CloseWriter, or TCPConn.Close called on the dialed connection.
CloseWriter(t, a) ==
    /\ ~panicked
    /\ callers[t].pc = "idle"
    /\ IF a \in dialedConnections
       THEN /\ callers' = Return(t, "Close", 0, CloseErr(a))
            /\ sock' = CloseEffect(sock, a)
       ELSE /\ callers' = Return(t, "Close", 0, ErrNotOpened)
            /\ UNCHANGED sock
    /\ UNCHANGED <<codec, maxMessageSize, managerVars, listenVars, chunk, reachable, dialedConnections, conn,
                   panicked>>

\* A call of Write on connection c with payload d begins (op is "Write"
\* for TCPConn.Write, "MWrite" when Manager.Write makes the call).
BeginWrite(t, op, c, d) ==
    [callers EXCEPT ![t].pc = "store", ![t].op = op, ![t].c = c,
                    ![t].data = d, ![t].calls = @ + 1,
                    ![t].toWriteLen = 0, ![t].totalBytesWritten = 0,
                    ![t].writeError = Nil]

\* TCPConn.Write is called on the dialed connection directly.
WriteCall(t, c, d) ==
    /\ ~panicked
    /\ callers[t].pc = "idle"
    /\ callers[t].calls < MaxCalls
    /\ c \in dialedConnections
    /\ callers' = BeginWrite(t, "Write", c, d)
    /\ UNCHANGED <<codec, maxMessageSize, managerVars, listenVars, chunk, reachable, dialedConnections, conn,
                   sock, panicked>>

\* A Manager.Write that would write without looking the address up.
ManagerWriteUnchecked(t, a, d) ==
    /\ ~panicked
    /\ callers[t].pc = "idle"
    /\ callers[t].calls < MaxCalls
    /\ callers' = BeginWrite(t, "MWrite", a, d)
    /\ UNCHANGED <<codec, maxMessageSize, managerVars, listenVars, chunk, reachable, dialedConnections, conn,
                   sock, panicked>>

\* Manager.Write: the lookup under the read lock, then btw.Write(data).
ManagerWriteCall(t, a, d) ==
    /\ ~panicked
    /\ callers[t].pc = "idle"
    /\ callers[t].calls < MaxCalls
    /\ IF a \in dialedConnections
       THEN callers' = BeginWrite(t, "MWrite", a, d)
       ELSE callers' = Return(t, "MWrite", 0, ErrNotOpened)
    /\ UNCHANGED <<codec, maxMessageSize, managerVars, listenVars, chunk, reachable, dialedConnections, conn,
                   sock, panicked>>

\* c.outgoingDataBuffer = append(intToByteArray(...), data...): the store
\* of the slice header into the shared field is not atomic; its words
\* (pointer, length) land one after the other, in either order.
WriteStore(t) ==
    /\ ~panicked
    /\ callers[t].pc = "store"
    /\ LET me == callers[t]
           frame == Frame(me.data, headerByteSize)
       IN  IF ~Fits(Len(me.data), headerByteSize)
           THEN /\ panicked' = TRUE
                /\ UNCHANGED <<conn, callers>>
           ELSE /\ \E word \in {"ptr", "len", "both"} :
                     conn' = [conn EXCEPT ![me.c].outgoingDataBuffer =
                        [ptr |-> IF word = "len" THEN @.ptr ELSE frame,
                         len |-> IF word = "ptr" THEN @.len ELSE Len(frame)]]
                /\ callers' = [callers EXCEPT ![t].pc = "stored"]
                /\ UNCHANGED panicked
    /\ UNCHANGED <<codec, maxMessageSize, managerVars, listenVars, chunk, reachable, dialedConnections, sock>>

\* The store of line 125 is complete.
WriteStored(t) ==
    /\ ~panicked
    /\ callers[t].pc = "stored"
    /\ LET me == callers[t]
           frame == Frame(me.data, headerByteSize)
       IN  conn' = [conn EXCEPT ![me.c].outgoingDataBuffer =
                        [ptr |-> frame, len |-> Len(frame)]]
    /\ callers' = [callers EXCEPT ![t].pc = "len"]
    /\ UNCHANGED <<codec, maxMessageSize, managerVars, listenVars, chunk, reachable, dialedConnections, sock,
                   panicked>>

\* toWriteLen := len(c.outgoingDataBuffer)
WriteLen(t) ==
    /\ ~panicked
    /\ callers[t].pc = "len"
    /\ callers' = [callers EXCEPT
            ![t].toWriteLen = conn[callers[t].c].outgoingDataBuffer.len,
            ![t].pc = "loop"]
    /\ UNCHANGED <<codec, maxMessageSize, managerVars, listenVars, chunk, reachable, dialedConnections, conn,
                   sock, panicked>>

\* A write loop that would hand the socket the buffer from its first byte
\* on every pass.
WriteLoopFromStart(t) ==
    /\ ~panicked
    /\ callers[t].pc = "loop"
    /\ LET me == callers[t]
           b == conn[me.c].outgoingDataBuffer
           s == conn[me.c].socket
           bytes == SliceFrom(b, 0)
           n == Min(Len(bytes), chunk)
       IN  IF ~(me.totalBytesWritten < me.toWriteLen /\ me.writeError = Nil)
           THEN /\ callers' = [callers EXCEPT ![t].pc = "after"]
                /\ UNCHANGED <<sock, panicked>>
           ELSE IF me.totalBytesWritten > b.len \/ s = NoSocket
           THEN /\ panicked' = TRUE
                /\ UNCHANGED <<sock, callers>>
           ELSE IF ~IsOpen(s) \/ sock[s].peerGone
           THEN /\ callers' = [callers EXCEPT ![t].writeError =
                        IF IsOpen(s) THEN ErrReset ELSE ErrClosed]
                /\ UNCHANGED <<sock, panicked>>
           ELSE /\ sock' = [sock EXCEPT ![s].wire =
                                @ \o Written(t, SubSeq(bytes, 1, n))]
                /\ callers' = [callers EXCEPT ![t].totalBytesWritten = @ + n]
                /\ UNCHANGED <<panicked>>
    /\ UNCHANGED <<codec, maxMessageSize, managerVars, listenVars, chunk, reachable, dialedConnections, conn>>

\* A write loop whose socket would take bytes although it is closed.
WriteLoopOnClosed(t) ==
    /\ ~panicked
    /\ callers[t].pc = "loop"
    /\ LET me == callers[t]
           s == conn[me.c].socket
           bytes == SliceFrom(conn[me.c].outgoingDataBuffer,
                             me.totalBytesWritten)
           n == Min(Len(bytes), chunk)
       IN  IF ~(me.totalBytesWritten < me.toWriteLen /\ me.writeError = Nil)
           THEN /\ callers' = [callers EXCEPT ![t].pc = "after"]
                /\ UNCHANGED sock
           ELSE /\ s # NoSocket
                /\ sock' = [sock EXCEPT ![s].wire =
                                @ \o Written(t, SubSeq(bytes, 1, n))]
                /\ callers' = [callers EXCEPT ![t].totalBytesWritten = @ + n]
    /\ UNCHANGED <<codec, maxMessageSize, managerVars, listenVars, chunk, reachable, dialedConnections, conn,
                   panicked>>

\* One turn of the write loop: the loop test, then
\* c.socket.Write(c.outgoingDataBuffer[totalBytesWritten:]).
WriteLoop(t) ==
    /\ ~panicked
    /\ callers[t].pc = "loop"
    /\ LET me == callers[t]
           b == conn[me.c].outgoingDataBuffer
           s == conn[me.c].socket
           bytes == SliceFrom(b, me.totalBytesWritten)
           n == Min(Len(bytes), chunk)
       IN  IF ~(me.totalBytesWritten < me.toWriteLen /\ me.writeError = Nil)
           THEN /\ callers' = [callers EXCEPT ![t].pc = "after"]
                /\ UNCHANGED <<sock, panicked>>
           ELSE IF me.totalBytesWritten > b.len \/ s = NoSocket
           THEN /\ panicked' = TRUE
                /\ UNCHANGED <<sock, callers>>
           ELSE IF ~IsOpen(s) \/ sock[s].peerGone
           THEN /\ callers' = [callers EXCEPT ![t].writeError =
                        IF IsOpen(s) THEN ErrReset ELSE ErrClosed]
                /\ UNCHANGED <<sock, panicked>>
           ELSE /\ sock' = [sock EXCEPT ![s].wire =
                                @ \o Written(t, SubSeq(bytes, 1, n))]
                /\ callers' = [callers EXCEPT ![t].totalBytesWritten = @ + n]
                /\ UNCHANGED <<panicked>>
    /\ UNCHANGED <<codec, maxMessageSize, managerVars, listenVars, chunk, reachable, dialedConnections, conn>>

\* A Write that would return its error and leave the socket as it is.
WriteAfterNoClose(t) ==
    /\ ~panicked
    /\ callers[t].pc = "after"
    /\ LET me == callers[t]
       IN  callers' =
               IF me.op = "MWrite" /\ me.writeError # Nil
               THEN [callers EXCEPT ![t].pc = "reopen"]
               ELSE Return(t, me.op, me.totalBytesWritten, me.writeError)
    /\ UNCHANGED <<codec, maxMessageSize, managerVars, listenVars, chunk, reachable, dialedConnections, conn,
                   sock, panicked>>

\* A Write that would report the whole frame as written, whatever the
\* socket took.
WriteAfterReportsAll(t) ==
    /\ ~panicked
    /\ callers[t].pc = "after"
    /\ LET me == callers[t]
       IN  /\ sock' = IF me.writeError # Nil THEN CloseEffect(sock, me.c)
                      ELSE sock
           /\ callers' =
                 IF me.op = "MWrite" /\ me.writeError # Nil
                 THEN [callers EXCEPT ![t].pc = "reopen"]
                 ELSE Return(t, me.op, me.toWriteLen, me.writeError)
    /\ UNCHANGED <<codec, maxMessageSize, managerVars, listenVars, chunk, reachable, dialedConnections, conn,
                   panicked>>

\* The end of TCPConn.Write: c.Close() if the write failed, then the
\* return; Manager.Write goes on to btw.Reopen() when err != nil.
WriteAfter(t) ==
    /\ ~panicked
    /\ callers[t].pc = "after"
    /\ LET me == callers[t]
       IN  /\ sock' = IF me.writeError # Nil THEN CloseEffect(sock, me.c)
                      ELSE sock
           /\ callers' =
                 IF me.op = "MWrite" /\ me.writeError # Nil
                 THEN [callers EXCEPT ![t].pc = "reopen"]
                 ELSE Return(t, me.op, me.totalBytesWritten, me.writeError)
    /\ UNCHANGED <<codec, maxMessageSize, managerVars, listenVars, chunk, reachable, dialedConnections, conn,
                   panicked>>

\* TCPConn.Reopen is called on the dialed connection directly.
ReopenCall(t, c) ==
    /\ ~panicked
    /\ callers[t].pc = "idle"
    /\ c \in dialedConnections
    /\ callers' = [callers EXCEPT ![t].pc = "reopen", ![t].op = "Reopen",
                                  ![t].c = c]
    /\ UNCHANGED <<codec, maxMessageSize, managerVars, listenVars, chunk, reachable, dialedConnections, conn,
                   sock, panicked>>

\* A Manager.Write that would hand the caller the result of Reopen.
ReopenReturnsOwnError(t, err) == Return(t, callers[t].op, 0, err)

\* What the caller gets when Reopen returns err: Reopen's own caller gets
\* err; Manager.Write drops it and returns the write's (bytesWritten, err).
ReopenReturn(t, err) ==
    IF callers[t].op = "MWrite"
    THEN Return(t, "MWrite", callers[t].totalBytesWritten,
                callers[t].writeError)
    ELSE Return(t, "Reopen", 0, err)

\* Reopen: if err := c.Close(); err != nil { return err }
ReopenClose(t) ==
    /\ ~panicked
    /\ callers[t].pc = "reopen"
    /\ LET me == callers[t]
       IN  /\ sock' = CloseEffect(sock, me.c)
           /\ callers' = IF CloseErr(me.c) # Nil
                         THEN ReopenReturn(t, CloseErr(me.c))
                         ELSE [callers EXCEPT ![t].pc = "open"]
    /\ UNCHANGED <<codec, maxMessageSize, managerVars, listenVars, chunk, reachable, dialedConnections, conn,
                   panicked>>

\* Reopen: c.open(), the re-dial of c.address.
ReopenOpen(t) ==
    /\ ~panicked
    /\ callers[t].pc = "open"
    /\ CanDial
    /\ IF reachable
       THEN /\ sock' = Dialed(sock)
            /\ conn' = [conn EXCEPT ![callers[t].c].socket = NextSocket]
            /\ callers' = ReopenReturn(t, Nil)
       ELSE /\ callers' = ReopenReturn(t, ErrDial)
            /\ UNCHANGED <<conn, sock>>
    /\ UNCHANGED <<codec, maxMessageSize, managerVars, listenVars, chunk, reachable, dialedConnections,
                   panicked>>

\* ------------------------------------------------------------ the network

\* The peer of socket s goes away (it resets the connection): writes to s
\* fail from now on.
PeerReset(s) ==
    /\ ~panicked
    /\ sock[s].state = "open"
    /\ ~sock[s].peerGone
    /\ sock' = [sock EXCEPT ![s].peerGone = TRUE]
    /\ UNCHANGED <<codec, maxMessageSize, managerVars, listenVars, chunk, reachable, dialedConnections, conn,
                   callers, panicked>>

\* The address stops accepting connections.
PeerDown ==
    /\ ~panicked
    /\ reachable
    /\ reachable' = FALSE
    /\ UNCHANGED <<codec, maxMessageSize, managerVars, listenVars, chunk, dialedConnections, conn, sock,
                   callers, panicked>>

\* The address accepts connections again.
PeerUp ==
    /\ ~panicked
    /\ ~reachable
    /\ reachable' = TRUE
    /\ UNCHANGED <<codec, maxMessageSize, managerVars, listenVars, chunk, dialedConnections, conn, sock,
                   callers, panicked>>

\* ---------------------------------------------------------- specifications

\* One step of caller t.
CallerStep(t) ==
    \/ \E a \in Addresses : Dial(t, a)
    \/ \E a \in Addresses : CloseWriter(t, a)
    \/ \E a \in Addresses, d \in Payloads : ManagerWriteCall(t, a, d)
    \/ \E c \in Addresses, d \in Payloads : WriteCall(t, c, d)
    \/ \E c \in Addresses : ReopenCall(t, c)
    \/ WriteStore(t)
    \/ WriteStored(t)
    \/ WriteLen(t)
    \/ WriteLoop(t)
    \/ WriteAfter(t)
    \/ ReopenClose(t)
    \/ ReopenOpen(t)

Network ==
    \/ \E s \in SockIds : PeerReset(s)
    \/ PeerDown
    \/ PeerUp

\* One application goroutine using a dialed connection through the Manager
\* and directly.
Next ==
    \/ \E t \in SeqCallers : CallerStep(t)
    \/ Network

Spec == ConnInit /\ [][Next]_vars

\* Two application goroutines share one connection that DialTCP returned
\* and call Write on it.
ConcInit ==
    /\ ListenIdle
    /\ ManagerIdle
    /\ codec = IdleCodec
    /\ maxMessageSize \in MaxMessageSizes
    /\ chunk \in ChunkSizes
    /\ reachable = TRUE
    /\ dialedConnections = Addresses
    /\ sock = [s \in SockIds |->
                IF s = 1 THEN [FreshSocket EXCEPT !.state = "open"]
                ELSE FreshSocket]
    /\ conn = [c \in Addresses |-> [FreshConn EXCEPT !.socket = 1]]
    /\ callers = [t \in Callers |-> IdleCaller]
    /\ panicked = FALSE

\* A goroutine sharing the connection calls Write.
ConcWriteCall(t, c, d) ==
    /\ callers[t].calls < MaxConcCalls
    /\ WriteCall(t, c, d)

ConcNext ==
    \/ \E t \in Callers, c \in Addresses, d \in Payloads :
            ConcWriteCall(t, c, d)
    \/ \E t \in Callers : WriteStore(t)
    \/ \E t \in Callers : WriteStored(t)
    \/ \E t \in Callers : WriteLen(t)
    \/ \E t \in Callers : WriteLoop(t)
    \/ \E t \in Callers : WriteAfter(t)
    \/ \E s \in SockIds : PeerReset(s)

SpecConc == ConcInit /\ [][ConcNext]_vars

\* One goroutine calls Write on a dialed connection whose transport never
\* fails and takes chunk bytes of every write call, one byte when chunk is 1.
WriteOnlyNext ==
    \/ \E t \in SeqCallers, c \in Addresses, d \in Payloads : WriteCall(t, c, d)
    \/ \E t \in SeqCallers : WriteStore(t)
    \/ \E t \in SeqCallers : WriteStored(t)
    \/ \E t \in SeqCallers : WriteLen(t)
    \/ \E t \in SeqCallers : WriteLoop(t)
    \/ \E t \in SeqCallers : WriteAfter(t)

\* The goroutine inside Write keeps running: every step of the call that
\* can be taken is taken. Calling Write again is not obliged to happen.
SpecWrite ==
    /\ ConcInit
    /\ [][WriteOnlyNext]_vars
    /\ \A t \in SeqCallers :
          /\ WF_vars(WriteStore(t))
          /\ WF_vars(WriteStored(t))
          /\ WF_vars(WriteLen(t))
          /\ WF_vars(WriteLoop(t))
          /\ WF_vars(WriteAfter(t))

\* ------------------------------------------------------------ TCPListener

\* newTCPConn(btl.connConfig) inside blockListen: it never fails, and its
\* result overwrites the err that AcceptTCP returned.
newTCPConnErr == Nil

FreeHandlers == {h \in HandlerIds : handlers[h].pc = "none"}

NextHandler == CHOOSE h \in FreeHandlers : \A g \in FreeHandlers : h <= g

PendingSockets == {s \in SockIds : sock[s].state = "pending"}

\* StartListening / StartListeningAsync: blockListen begins.
StartListening ==
    /\ ~panicked
    /\ listener.acceptPc = "inert"
    /\ listener' = [listener EXCEPT !.acceptPc = "accept"]
    /\ UNCHANGED <<codec, maxMessageSize, managerVars, dialVars, sock, handlers, panicked>>

\* blockListen: c, err := btl.socket.AcceptTCP() returns a connection.
Accept(s) ==
    /\ ~panicked
    /\ listener.acceptPc = "accept"
    /\ FreeHandlers # {}
    /\ s \in PendingSockets
    /\ \A r \in PendingSockets : s <= r
    /\ sock' = [sock EXCEPT ![s].state = "open"]
    /\ listener' = [listener EXCEPT !.acceptPc = "dispatch", !.c = s]
    /\ UNCHANGED <<codec, maxMessageSize, managerVars, dialVars, handlers, panicked>>

\* blockListen: AcceptTCP returns (nil, err), a transient accept error.
AcceptError ==
    /\ ~panicked
    /\ listener.acceptPc = "accept"
    /\ FreeHandlers # {}
    /\ listener' = [listener EXCEPT !.acceptPc = "dispatch", !.c = NoSocket]
    /\ UNCHANGED <<codec, maxMessageSize, managerVars, dialVars, sock, handlers, panicked>>

\* blockListen, after AcceptTCP: conn, err := newTCPConn(...), with the
\* return on its err; conn.socket = c; then the second test of the same
\* err, with the shutdown check on one side and go btl.readLoop(conn) on
\* the other.
Dispatch ==
    /\ ~panicked
    /\ listener.acceptPc = "dispatch"
    /\ IF newTCPConnErr # Nil
       THEN /\ listener' = [listener EXCEPT !.acceptPc = "returned",
                                            !.c = NoSocket]
            /\ UNCHANGED handlers
       ELSE IF newTCPConnErr # Nil
       THEN /\ listener' = [listener EXCEPT
                    !.acceptPc = IF listener.shutdownChannel = "closed"
                                 THEN "returned" ELSE "accept",
                    !.c = NoSocket]
            /\ UNCHANGED handlers
       ELSE /\ handlers' = [handlers EXCEPT ![NextHandler] =
                    [NoHandler EXCEPT !.pc = "spawned",
                                      !.socket = listener.c]]
            /\ listener' = [listener EXCEPT !.acceptPc = "accept",
                                            !.c = NoSocket]
    /\ UNCHANGED <<codec, maxMessageSize, managerVars, dialVars, sock, panicked>>

\* TCPListener.Close, first statement: close(btl.shutdownChannel). Closing
\* a closed channel panics.
ListenerClose ==
    /\ ~panicked
    /\ listener.closePc \in {"idle", "returned"}
    /\ IF listener.shutdownChannel = "closed"
       THEN /\ panicked' = TRUE
            /\ listener' = [listener EXCEPT !.closePc = "close"]
       ELSE /\ listener' = [listener EXCEPT !.shutdownChannel = "closed",
                                            !.closePc = "wait"]
            /\ UNCHANGED panicked
    /\ UNCHANGED <<codec, maxMessageSize, managerVars, dialVars, sock, handlers>>

\* TCPListener.Close, second statement: btl.shutdownGroup.Wait() returns.
ListenerCloseWait ==
    /\ ~panicked
    /\ listener.closePc = "wait"
    /\ listener.shutdownGroup = 0
    /\ listener' = [listener EXCEPT !.closePc = "returned"]
    /\ UNCHANGED <<codec, maxMessageSize, managerVars, dialVars, sock, handlers, panicked>>

\* readLoop, lines 150-161: t.shutdownGroup.Add(1), the deferred Done, the
\* data buffer, and the goroutine that waits on the shutdown channel.
ReadLoopStart(h) ==
    /\ ~panicked
    /\ handlers[h].pc = "spawned"
    /\ listener' = [listener EXCEPT !.shutdownGroup = @ + 1]
    /\ handlers' = [handlers EXCEPT ![h].pc = "header",
                                    ![h].watcher = "waiting"]
    /\ UNCHANGED <<codec, maxMessageSize, managerVars, dialVars, sock, panicked>>

\* The goroutine of readLoop that does <-s; c.Close().
ShutdownWatcher(h) ==
    /\ ~panicked
    /\ handlers[h].watcher = "waiting"
    /\ listener.shutdownChannel = "closed"
    /\ IF handlers[h].socket = NoSocket
       THEN /\ panicked' = TRUE
            /\ UNCHANGED <<sock, handlers>>
       ELSE /\ sock' = SocketClosed(sock, handlers[h].socket)
            /\ handlers' = [handlers EXCEPT ![h].watcher = "done"]
            /\ UNCHANGED panicked
    /\ UNCHANGED <<codec, maxMessageSize, managerVars, dialVars, listener>>

\* c.socket.Read can return: the socket is closed on this side, bytes
\* have arrived, or the peer has closed.
CanRead(s) ==
    \/ sock[s].state # "open"
    \/ sock[s].inbound # <<>>
    \/ sock[s].peerClosed

\* TCPConn.Read returns (n, err) to readLoop; closing says whether Read
\* called c.Close() first. The header buffer is dead until the next Read.
ReadReturns(h, n, err, closing) ==
    /\ handlers' = [handlers EXCEPT ![h].pc = "returned", ![h].n = n,
                                    ![h].err = err,
                                    ![h].incomingHeaderBuffer = <<>>,
                                    ![h].msgLength = 0]
    /\ sock' = IF closing THEN SocketClosed(sock, handlers[h].socket)
               ELSE sock

\* What can go wrong in byteArrayToUInt32: it reports that it consumed no
\* byte ("zero"), or a negative count ("negative").
DecodeFaults == {"zero", "negative"}

\* A Read that would return the error of a failed decoding and leave the
\* socket open.
ReadHeaderNoClose(h, fault) ==
    /\ ~panicked
    /\ handlers[h].pc = "header"
    /\ LET me == handlers[h]
           s == me.socket
       IN  IF s = NoSocket
           THEN /\ panicked' = TRUE
                /\ UNCHANGED <<sock, handlers>>
           ELSE
           /\ CanRead(s)
           /\ LET have == Len(me.incomingHeaderBuffer)
                  k == Min(Len(sock[s].inbound), headerByteSize - have)
                  hdr == me.incomingHeaderBuffer \o SubSeq(sock[s].inbound, 1, k)
                  rest == SubSeq(sock[s].inbound, k + 1, Len(sock[s].inbound))
                  msgLength == byteArrayToUInt32(hdr)[1]
                  bytesParsed == IF fault = "zero" THEN 0
                                 ELSE IF fault = "negative" THEN 0 - 1
                                 ELSE byteArrayToUInt32(hdr)[2]
              IN  IF sock[s].state # "open"
                  THEN /\ ReadReturns(h, have, ErrClosed, FALSE)
                       /\ UNCHANGED panicked
                  ELSE IF sock[s].inbound = <<>>
                  THEN /\ ReadReturns(h, have, EOF, FALSE)
                       /\ UNCHANGED panicked
                  ELSE IF Len(hdr) < headerByteSize
                  THEN /\ handlers' = [handlers EXCEPT
                                ![h].incomingHeaderBuffer = hdr]
                       /\ sock' = [sock EXCEPT ![s].inbound = rest]
                       /\ UNCHANGED panicked
                  ELSE IF bytesParsed = 0
                  THEN /\ handlers' = [handlers EXCEPT ![h].pc = "returned",
                                ![h].n = headerByteSize,
                                ![h].err = ErrZeroBytesReadHeader,
                                ![h].incomingHeaderBuffer = <<>>]
                       /\ sock' = [sock EXCEPT ![s].inbound = rest]
                       /\ UNCHANGED panicked
                  ELSE IF bytesParsed < 0
                  THEN /\ handlers' = [handlers EXCEPT ![h].pc = "returned",
                                ![h].n = headerByteSize,
                                ![h].err = ErrLessThanZeroBytesReadHeader,
                                ![h].incomingHeaderBuffer = <<>>]
                       /\ sock' = [sock EXCEPT ![s].inbound = rest]
                       /\ UNCHANGED panicked
                  ELSE IF msgLength > maxMessageSize
                  THEN /\ panicked' = TRUE
                       /\ sock' = [sock EXCEPT ![s].inbound = rest]
                       /\ handlers' = [handlers EXCEPT
                                ![h].incomingHeaderBuffer = hdr,
                                ![h].msgLength = msgLength]
                  ELSE /\ handlers' = [handlers EXCEPT ![h].pc = "body",
                                ![h].incomingHeaderBuffer = hdr,
                                ![h].msgLength = msgLength,
                                ![h].dataBuffer = <<>>]
                       /\ sock' = [sock EXCEPT ![s].inbound = rest]
                       /\ UNCHANGED panicked
    /\ UNCHANGED <<codec, maxMessageSize, managerVars, dialVars, listener>>

\* TCPConn.Read, lines 198-212: one c.socket.Read of lowLevelRead on the
\* header buffer; with the header complete, byteArrayToUInt32 and the
\* slicing b[:msgLength] of the data buffer (cap maxMessageSize). fault
\* says whether the decoding of the header fails, and how.
ReadHeaderDecoding(h, fault) ==
    /\ ~panicked
    /\ handlers[h].pc = "header"
    /\ LET me == handlers[h]
           s == me.socket
       IN  IF s = NoSocket
           THEN /\ panicked' = TRUE
                /\ UNCHANGED <<sock, handlers>>
           ELSE
           /\ CanRead(s)
           /\ LET have == Len(me.incomingHeaderBuffer)
                  k == Min(Len(sock[s].inbound), headerByteSize - have)
                  hdr == me.incomingHeaderBuffer \o SubSeq(sock[s].inbound, 1, k)
                  rest == SubSeq(sock[s].inbound, k + 1, Len(sock[s].inbound))
                  msgLength == byteArrayToUInt32(hdr)[1]
                  bytesParsed == IF fault = "zero" THEN 0
                                 ELSE IF fault = "negative" THEN 0 - 1
                                 ELSE byteArrayToUInt32(hdr)[2]
              IN  IF sock[s].state # "open"
                  THEN /\ ReadReturns(h, have, ErrClosed, FALSE)
                       /\ UNCHANGED panicked
                  ELSE IF sock[s].inbound = <<>>
                  THEN /\ ReadReturns(h, have, EOF, FALSE)
                       /\ UNCHANGED panicked
                  ELSE IF Len(hdr) < headerByteSize
                  THEN /\ handlers' = [handlers EXCEPT
                                ![h].incomingHeaderBuffer = hdr]
                       /\ sock' = [sock EXCEPT ![s].inbound = rest]
                       /\ UNCHANGED panicked
                  ELSE IF bytesParsed = 0
                  THEN /\ handlers' = [handlers EXCEPT ![h].pc = "returned",
                                ![h].n = headerByteSize,
                                ![h].err = ErrZeroBytesReadHeader,
                                ![h].incomingHeaderBuffer = <<>>]
                       /\ sock' = [SocketClosed(sock, s) EXCEPT
                                        ![s].inbound = rest]
                       /\ UNCHANGED panicked
                  ELSE IF bytesParsed < 0
                  THEN /\ handlers' = [handlers EXCEPT ![h].pc = "returned",
                                ![h].n = headerByteSize,
                                ![h].err = ErrLessThanZeroBytesReadHeader,
                                ![h].incomingHeaderBuffer = <<>>]
                       /\ sock' = [SocketClosed(sock, s) EXCEPT
                                        ![s].inbound = rest]
                       /\ UNCHANGED panicked
                  ELSE IF msgLength > maxMessageSize
                  THEN /\ panicked' = TRUE
                       /\ sock' = [sock EXCEPT ![s].inbound = rest]
                       /\ handlers' = [handlers EXCEPT
                                ![h].incomingHeaderBuffer = hdr,
                                ![h].msgLength = msgLength]
                  ELSE /\ handlers' = [handlers EXCEPT ![h].pc = "body",
                                ![h].incomingHeaderBuffer = hdr,
                                ![h].msgLength = msgLength,
                                ![h].dataBuffer = <<>>]
                       /\ sock' = [sock EXCEPT ![s].inbound = rest]
                       /\ UNCHANGED panicked
    /\ UNCHANGED <<codec, maxMessageSize, managerVars, dialVars, listener>>

\* Read with a decoder that decodes every header.
ReadHeader(h) == ReadHeaderDecoding(h, "none")

\* Read with a decoder that fails on the header.
ReadHeaderFailing(h) == \E fault \in DecodeFaults : ReadHeaderDecoding(h, fault)

\* TCPConn.Read, lines 215-219: one c.socket.Read of lowLevelRead on
\* b[:msgLength]; on an error, c.Close(). A read into an empty buffer
\* returns (0, nil) at once on an open socket.
ReadBody(h) ==
    /\ ~panicked
    /\ handlers[h].pc = "body"
    /\ LET me == handlers[h]
           s == me.socket
           have == Len(me.dataBuffer)
           k == Min(Len(sock[s].inbound), me.msgLength - have)
           body == me.dataBuffer \o SubSeq(sock[s].inbound, 1, k)
           rest == SubSeq(sock[s].inbound, k + 1, Len(sock[s].inbound))
       IN  /\ me.msgLength = 0 \/ CanRead(s)
           /\ IF sock[s].state # "open"
              THEN ReadReturns(h, have, ErrClosed, TRUE)
              ELSE IF me.msgLength = 0
              THEN ReadReturns(h, 0, Nil, FALSE)
              ELSE IF sock[s].inbound = <<>>
              THEN ReadReturns(h, have, EOF, TRUE)
              ELSE IF Len(body) < me.msgLength
              THEN /\ handlers' = [handlers EXCEPT ![h].dataBuffer = body]
                   /\ sock' = [sock EXCEPT ![s].inbound = rest]
              ELSE /\ handlers' = [handlers EXCEPT ![h].pc = "returned",
                            ![h].n = Len(body), ![h].err = Nil,
                            ![h].dataBuffer = body,
                            ![h].incomingHeaderBuffer = <<>>,
                            ![h].msgLength = 0]
                   /\ sock' = [sock EXCEPT ![s].inbound = rest]
    /\ UNCHANGED <<codec, maxMessageSize, managerVars, dialVars, listener, panicked>>

\* A read loop that would not call the callback for an empty message.
ReadLoopDropsEmpty(h) ==
    /\ ~panicked
    /\ handlers[h].pc = "returned"
    /\ LET me == handlers[h]
       IN  IF me.err # Nil
           THEN /\ sock' = SocketClosed(sock, me.socket)
                /\ listener' = [listener EXCEPT !.shutdownGroup = @ - 1]
                /\ handlers' = [handlers EXCEPT ![h].pc = "exited",
                                    ![h].dataBuffer = <<>>]
           ELSE /\ \E e \in CallbackResults :
                     handlers' = [handlers EXCEPT ![h].pc = "header",
                        ![h].delivered =
                            IF me.n = 0 THEN @
                            ELSE Append(@, SubSeq(me.dataBuffer, 1, me.n)),
                        ![h].callbackErrs =
                            IF me.n = 0 THEN @ ELSE Append(@, e),
                        ![h].dataBuffer = <<>>, ![h].n = 0]
                /\ UNCHANGED <<sock, listener>>
    /\ UNCHANGED <<codec, maxMessageSize, managerVars, dialVars, panicked>>

\* A read loop that would close the connection and return when the
\* callback returns an error.
ReadLoopStopsOnCallbackError(h) ==
    /\ ~panicked
    /\ handlers[h].pc = "returned"
    /\ LET me == handlers[h]
       IN  IF me.err # Nil
           THEN /\ sock' = SocketClosed(sock, me.socket)
                /\ listener' = [listener EXCEPT !.shutdownGroup = @ - 1]
                /\ handlers' = [handlers EXCEPT ![h].pc = "exited",
                                    ![h].dataBuffer = <<>>]
           ELSE \E e \in CallbackResults :
                /\ handlers' = [handlers EXCEPT
                        ![h].pc = IF e = Nil THEN "header" ELSE "exited",
                        ![h].delivered =
                            Append(@, SubSeq(me.dataBuffer, 1, me.n)),
                        ![h].callbackErrs = Append(@, e),
                        ![h].dataBuffer = <<>>, ![h].n = 0]
                /\ sock' = IF e = Nil THEN sock
                           ELSE SocketClosed(sock, me.socket)
                /\ listener' = IF e = Nil THEN listener
                               ELSE [listener EXCEPT !.shutdownGroup = @ - 1]
    /\ UNCHANGED <<codec, maxMessageSize, managerVars, dialVars, panicked>>

\* A read loop that would go on reading after an error of Read.
ReadLoopContinuesOnError(h) ==
    /\ ~panicked
    /\ handlers[h].pc = "returned"
    /\ LET me == handlers[h]
       IN  IF me.err # Nil
           THEN /\ handlers' = [handlers EXCEPT ![h].pc = "header",
                                    ![h].dataBuffer = <<>>]
                /\ UNCHANGED <<sock, listener>>
           ELSE /\ \E e \in CallbackResults :
                     handlers' = [handlers EXCEPT ![h].pc = "header",
                        ![h].delivered =
                            Append(@, SubSeq(me.dataBuffer, 1, me.n)),
                        ![h].callbackErrs = Append(@, e),
                        ![h].dataBuffer = <<>>, ![h].n = 0]
                /\ UNCHANGED <<sock, listener>>
    /\ UNCHANGED <<codec, maxMessageSize, managerVars, dialVars, panicked>>

\* A read loop that would hand the callback what Read had read when it
\* failed.
ReadLoopDeliversOnError(h) ==
    /\ ~panicked
    /\ handlers[h].pc = "returned"
    /\ LET me == handlers[h]
       IN  IF me.err # Nil
           THEN /\ sock' = SocketClosed(sock, me.socket)
                /\ listener' = [listener EXCEPT !.shutdownGroup = @ - 1]
                /\ \E e \in CallbackResults :
                     handlers' = [handlers EXCEPT ![h].pc = "exited",
                        ![h].delivered = Append(@, me.dataBuffer),
                        ![h].callbackErrs = Append(@, e),
                        ![h].dataBuffer = <<>>]
           ELSE /\ \E e \in CallbackResults :
                     handlers' = [handlers EXCEPT ![h].pc = "header",
                        ![h].delivered =
                            Append(@, SubSeq(me.dataBuffer, 1, me.n)),
                        ![h].callbackErrs = Append(@, e),
                        ![h].dataBuffer = <<>>, ![h].n = 0]
                /\ UNCHANGED <<sock, listener>>
    /\ UNCHANGED <<codec, maxMessageSize, managerVars, dialVars, panicked>>

\* readLoop, lines 170-184: on an error of Read, conn.Close() and return
\* (the deferred Done runs); otherwise the callback gets dataBuffer[:msgLen]
\* and returns nil or an error of its own, which is logged at most.
ReadLoopAfterRead(h) ==
    /\ ~panicked
    /\ handlers[h].pc = "returned"
    /\ LET me == handlers[h]
       IN  IF me.err # Nil
           THEN /\ sock' = SocketClosed(sock, me.socket)
                /\ listener' = [listener EXCEPT !.shutdownGroup = @ - 1]
                /\ handlers' = [handlers EXCEPT ![h].pc = "exited",
                                    ![h].dataBuffer = <<>>]
           ELSE /\ \E e \in CallbackResults :
                     handlers' = [handlers EXCEPT ![h].pc = "header",
                        ![h].delivered =
                            Append(@, SubSeq(me.dataBuffer, 1, me.n)),
                        ![h].callbackErrs = Append(@, e),
                        ![h].dataBuffer = <<>>, ![h].n = 0]
                /\ UNCHANGED <<sock, listener>>
    /\ UNCHANGED <<codec, maxMessageSize, managerVars, dialVars, panicked>>

\* ------------------------------------------------------------ the clients

\* A client connects: the connection waits in the listen backlog.
ClientConnect ==
    /\ ~panicked
    /\ UnusedSockets # {}
    /\ sock' = [sock EXCEPT ![NextSocket].state = "pending",
                    ![NextSocket].late = (listener.shutdownChannel = "closed")]
    /\ UNCHANGED <<codec, maxMessageSize, managerVars, dialVars, listenVars, panicked>>

\* The client of connection s sends one byte.
ClientSend(s, b) ==
    /\ ~panicked
    /\ sock[s].state \in {"pending", "open"}
    /\ ~sock[s].peerClosed
    /\ sock[s].sent < MaxSent
    /\ sock' = [sock EXCEPT ![s].inbound = Append(@, b), ![s].sent = @ + 1]
    /\ UNCHANGED <<codec, maxMessageSize, managerVars, dialVars, listenVars, panicked>>

\* The client of connection s sends one byte of a stream long enough for a
\* two-byte header and a payload.
ClientSendFrame(s, b) ==
    /\ ~panicked
    /\ sock[s].state \in {"pending", "open"}
    /\ ~sock[s].peerClosed
    /\ sock[s].sent < MaxFrameSent
    /\ sock' = [sock EXCEPT ![s].inbound = Append(@, b), ![s].sent = @ + 1]
    /\ UNCHANGED <<codec, maxMessageSize, managerVars, dialVars, listenVars, panicked>>

\* The client of connection s closes its end.
ClientClose(s) ==
    /\ ~panicked
    /\ sock[s].state \in {"pending", "open"}
    /\ ~sock[s].peerClosed
    /\ sock' = [sock EXCEPT ![s].peerClosed = TRUE]
    /\ UNCHANGED <<codec, maxMessageSize, managerVars, dialVars, listenVars, panicked>>

\* The accept loop of the listener.
AcceptLoop ==
    \/ \E s \in SockIds : Accept(s)
    \/ Dispatch

\* The goroutines of one accepted connection.
Handler(h) ==
    \/ ReadLoopStart(h)
    \/ ShutdownWatcher(h)
    \/ ReadHeader(h)
    \/ ReadBody(h)
    \/ ReadLoopAfterRead(h)

Clients ==
    \/ ClientConnect
    \/ \E s \in SockIds, b \in ClientBytes : ClientSend(s, b)
    \/ \E s \in SockIds : ClientClose(s)

\* A listener after ListenTCP; nothing is dialed.
ListenInit ==
    /\ maxMessageSize \in MaxMessageSizes
    /\ chunk = 1
    /\ reachable = TRUE
    /\ dialedConnections = {}
    /\ conn = [c \in Addresses |-> FreshConn]
    /\ sock = [s \in SockIds |-> FreshSocket]
    /\ callers = [t \in Callers |-> IdleCaller]
    /\ panicked = FALSE
    /\ ListenIdle
    /\ ManagerIdle
    /\ codec = IdleCodec

ListenNext ==
    \/ StartListening
    \/ AcceptLoop
    \/ AcceptError
    \/ ListenerClose
    \/ ListenerCloseWait
    \/ \E h \in HandlerIds : Handler(h)
    \/ Clients

SpecListen == ListenInit /\ [][ListenNext]_vars

\* The scheduler runs every goroutine that can take a step: the accept
\* loop, the handlers and a Close that is waiting. Clients, accept errors
\* and calls into the API are not obliged to happen.
SpecListenFair ==
    /\ SpecListen
    /\ WF_vars(AcceptLoop)
    /\ WF_vars(ListenerCloseWait)
    /\ \A h \in HandlerIds : WF_vars(Handler(h))

\* ------------------------------------------------- closed connections

\* The sockets of a process that holds one dialed connection, one
\* accepted connection, and can dial once more.
ClosedSockIds == 1..(MaxSockets + 1)

\* The socket of the accepted connection.
AcceptedSocket == MaxSockets

\* DialTCP has returned a connection to the application (socket 1) and
\* the accept loop of a listener has just spawned the handler of a client
\* (socket AcceptedSocket).
ClosedInit ==
    /\ maxMessageSize \in {m \in MaxMessageSizes :
                                messageSizeToBitLength(m) = 1}
    /\ chunk = 8
    /\ reachable = TRUE
    /\ dialedConnections = Addresses
    /\ conn = [c \in Addresses |-> [FreshConn EXCEPT !.socket = 1]]
    /\ sock = [s \in ClosedSockIds |->
                IF s \in {1, AcceptedSocket}
                THEN [FreshSocket EXCEPT !.state = "open"]
                ELSE FreshSocket]
    /\ callers = [t \in Callers |-> IdleCaller]
    /\ panicked = FALSE
    /\ listener = [FreshListener EXCEPT !.acceptPc = "accept"]
    /\ handlers = [h \in HandlerIds |->
                    IF h = 1 THEN [NoHandler EXCEPT !.pc = "spawned",
                                                    !.socket = AcceptedSocket]
                    ELSE NoHandler]
    /\ ManagerIdle
    /\ codec = IdleCodec

\* The application calls Write, Close and Reopen on its connection, one
\* call at a time; the handler reads; the listener is closed; the peers
\* send, reset and close.
ClosedNext ==
    \/ \E t \in SeqCallers, c \in Addresses, d \in Payloads :
            ConcWriteCall(t, c, d)
    \/ \E t \in SeqCallers : WriteStore(t)
    \/ \E t \in SeqCallers : WriteStored(t)
    \/ \E t \in SeqCallers : WriteLen(t)
    \/ \E t \in SeqCallers : WriteLoop(t)
    \/ \E t \in SeqCallers : WriteAfter(t)
    \/ \E t \in SeqCallers, a \in Addresses : CloseWriter(t, a)
    \/ \E t \in SeqCallers, c \in Addresses : ReopenCall(t, c)
    \/ \E t \in SeqCallers : ReopenClose(t)
    \/ \E t \in SeqCallers : ReopenOpen(t)
    \/ \E c \in Addresses : PeerReset(conn[c].socket)
    \/ \E h \in HandlerIds : Handler(h)
    \/ ListenerClose
    \/ ListenerCloseWait
    \/ \E b \in ClientBytes : ClientSend(AcceptedSocket, b)
    \/ ClientClose(AcceptedSocket)

SpecClosed == ClosedInit /\ [][ClosedNext]_vars

\* ------------------------------------------------- one caller, one listener

\* The socket of the dialed connection: the other end of AcceptedSocket.
DialedSocket == 1

\* A connection dialed to a listener with the same MaxMessageSize: the
\* dialed socket and the accepted socket are the two ends of one TCP
\* connection, and the listener has spawned the handler of its end.
PipeInit ==
    /\ maxMessageSize \in MaxMessageSizes
    /\ chunk \in ChunkSizes
    /\ reachable = TRUE
    /\ dialedConnections = Addresses
    /\ conn = [c \in Addresses |-> [FreshConn EXCEPT !.socket = DialedSocket]]
    /\ sock = [s \in ClosedSockIds |->
                IF s \in {DialedSocket, AcceptedSocket}
                THEN [FreshSocket EXCEPT !.state = "open"]
                ELSE FreshSocket]
    /\ callers = [t \in Callers |-> IdleCaller]
    /\ panicked = FALSE
    /\ listener = [FreshListener EXCEPT !.acceptPc = "accept"]
    /\ handlers = [h \in HandlerIds |->
                    IF h = 1 THEN [NoHandler EXCEPT !.pc = "spawned",
                                                    !.socket = AcceptedSocket]
                    ELSE NoHandler]
    /\ ManagerIdle
    /\ codec = IdleCodec

\* The caller writes a payload that is no longer than maxMessageSize.
PipeWriteCall(t, c, d) ==
    /\ Len(d) <= maxMessageSize
    /\ WriteCall(t, c, d)

\* TCP carries the next byte written to the dialed socket to the accepted
\* socket: bytes arrive in the order written, each once.
Transfer ==
    /\ ~panicked
    /\ sock[AcceptedSocket].state = "open"
    /\ sock[AcceptedSocket].sent < Len(sock[DialedSocket].wire)
    /\ sock' = [sock EXCEPT
            ![AcceptedSocket].inbound =
                Append(@, sock[DialedSocket].wire[
                                sock[AcceptedSocket].sent + 1].b),
            ![AcceptedSocket].sent = @ + 1]
    /\ UNCHANGED <<codec, maxMessageSize, managerVars, dialVars, listenVars, panicked>>

\* The close of the dialed socket reaches the accepted socket after every
\* byte written before it.
TransferClose ==
    /\ ~panicked
    /\ sock[DialedSocket].state = "closed"
    /\ sock[AcceptedSocket].state = "open"
    /\ ~sock[AcceptedSocket].peerClosed
    /\ sock[AcceptedSocket].sent = Len(sock[DialedSocket].wire)
    /\ sock' = [sock EXCEPT ![AcceptedSocket].peerClosed = TRUE]
    /\ UNCHANGED <<codec, maxMessageSize, managerVars, dialVars, listenVars, panicked>>

\* One goroutine writes to the connection and closes it; the handler of
\* the listener reads what arrives. The listener is not closed, so the
\* goroutine of the handler that waits on the shutdown channel stays blocked.
PipeNext ==
    \/ \E t \in SeqCallers, c \in Addresses, d \in Payloads :
            PipeWriteCall(t, c, d)
    \/ \E t \in SeqCallers : WriteStore(t)
    \/ \E t \in SeqCallers : WriteStored(t)
    \/ \E t \in SeqCallers : WriteLen(t)
    \/ \E t \in SeqCallers : WriteLoop(t)
    \/ \E t \in SeqCallers : WriteAfter(t)
    \/ \E t \in SeqCallers, a \in Addresses : CloseWriter(t, a)
    \/ Transfer
    \/ TransferClose
    \/ \E h \in HandlerIds : ReadLoopStart(h)
    \/ \E h \in HandlerIds : ReadHeader(h)
    \/ \E h \in HandlerIds : ReadBody(h)
    \/ \E h \in HandlerIds : ReadLoopAfterRead(h)

SpecPipe == PipeInit /\ [][PipeNext]_vars

\* ------------------------------------------------- one accepted connection

\* The handler of one accepted connection reads what its client sends;
\* the client closes, the listener is closed, and the decoding of a header
\* can fail.
ReadNext ==
    \/ \E h \in HandlerIds : Handler(h)
    \/ \E h \in HandlerIds : ReadHeaderFailing(h)
    \/ \E b \in ClientBytes : ClientSendFrame(AcceptedSocket, b)
    \/ ClientClose(AcceptedSocket)
    \/ ListenerClose
    \/ ListenerCloseWait

SpecRead == PipeInit /\ [][ReadNext]_vars

\* ------------------------------------------------- Write against Reopen

\* The goroutine that writes, and the goroutine that reopens.
Writer == 1
Reopener == 2

\* One goroutine calls Write on a dialed connection while another calls
\* Reopen on the same connection; neither takes a lock.
ReopenNext ==
    \/ \E c \in Addresses, d \in Payloads : ConcWriteCall(Writer, c, d)
    \/ WriteStore(Writer)
    \/ WriteStored(Writer)
    \/ WriteLen(Writer)
    \/ WriteLoop(Writer)
    \/ WriteAfter(Writer)
    \/ \E c \in Addresses : ReopenCall(Reopener, c)
    \/ ReopenClose(Reopener)
    \/ ReopenOpen(Reopener)

SpecReopen == ConcInit /\ [][ReopenNext]_vars

\* ------------------------------------------------- BuffTCPListener

\* binary.Uvarint(buf): <<value, bytes consumed>>; <<0, 0>> when the buffer
\* ends inside the number, <<0, -(i + 1)>> on an overflow at byte i. The
\* byte at position i of the sequence is byte i - 1 of the Go slice.
RECURSIVE UvarintFrom(_, _, _, _)
UvarintFrom(buf, i, x, weight) ==
    IF i > Len(buf) THEN <<0, 0>>
    ELSE IF i = 11 THEN <<0, 0 - i>>
    ELSE IF buf[i] < 128
    THEN IF i = 10 /\ buf[i] > 1 THEN <<0, 0 - i>>
         ELSE <<x + buf[i] * weight, i>>
    ELSE UvarintFrom(buf, i + 1, x + (buf[i] - 128) * weight, weight * 128)

Uvarint(buf) == UvarintFrom(buf, 1, 0, 1)

\* The bytes a client of a BuffTCPListener sends.
BuffClientBytes == ClientBytes \cup {128}

\* handleListenedConn ends: conn.Close() and return.
HandleExit(h, err) ==
    /\ handlers' = [handlers EXCEPT ![h].pc = "exited", ![h].err = err,
                                    ![h].incomingHeaderBuffer = <<>>,
                                    ![h].dataBuffer = <<>>]
    /\ sock' = SocketClosed(sock, handlers[h].socket)

\* handleListenedConn begins: the header buffer and the data buffer.
HandleStart(h) ==
    /\ ~panicked
    /\ handlers[h].pc = "spawned"
    /\ handlers' = [handlers EXCEPT ![h].pc = "header"]
    /\ UNCHANGED <<codec, maxMessageSize, managerVars, dialVars, sock, listener,
                   panicked>>

\* handleListenedConn, lines 139-181: one readFromConnection of the header
\* loop; with the header complete, binary.Uvarint and its two failures,
\* and the slicing dataBuffer[0:iMsgLength] of the first pass of the data
\* loop, which panics beyond the capacity maxMessageSize.
HandleHeader(h) ==
    /\ ~panicked
    /\ handlers[h].pc = "header"
    /\ LET me == handlers[h]
           s == me.socket
           have == Len(me.incomingHeaderBuffer)
           k == Min(Len(sock[s].inbound), headerByteSize - have)
           hdr == me.incomingHeaderBuffer \o SubSeq(sock[s].inbound, 1, k)
           rest == SubSeq(sock[s].inbound, k + 1, Len(sock[s].inbound))
           iMsgLength == Uvarint(hdr)[1]
           bytesParsed == Uvarint(hdr)[2]
       IN  /\ CanRead(s)
           /\ IF sock[s].state # "open"
              THEN HandleExit(h, ErrClosed) /\ UNCHANGED panicked
              ELSE IF sock[s].inbound = <<>>
              THEN HandleExit(h, EOF) /\ UNCHANGED panicked
              ELSE IF Len(hdr) < headerByteSize
              THEN /\ handlers' = [handlers EXCEPT
                            ![h].incomingHeaderBuffer = hdr]
                   /\ sock' = [sock EXCEPT ![s].inbound = rest]
                   /\ UNCHANGED panicked
              ELSE IF bytesParsed = 0
              THEN HandleExit(h, ErrZeroBytesReadHeader) /\ UNCHANGED panicked
              ELSE IF bytesParsed < 0
              THEN /\ HandleExit(h, ErrLessThanZeroBytesReadHeader)
                   /\ UNCHANGED panicked
              ELSE IF iMsgLength > maxMessageSize
              THEN /\ panicked' = TRUE
                   /\ sock' = [sock EXCEPT ![s].inbound = rest]
                   /\ handlers' = [handlers EXCEPT
                            ![h].incomingHeaderBuffer = hdr,
                            ![h].msgLength = iMsgLength]
              ELSE /\ handlers' = [handlers EXCEPT
                            ![h].pc = IF iMsgLength > 0 THEN "body"
                                      ELSE "callback",
                            ![h].incomingHeaderBuffer = <<>>,
                            ![h].msgLength = iMsgLength,
                            ![h].dataBuffer = <<>>, ![h].n = 0]
                   /\ sock' = [sock EXCEPT ![s].inbound = rest]
                   /\ UNCHANGED panicked
    /\ UNCHANGED <<codec, maxMessageSize, managerVars, dialVars, listener>>

\* handleListenedConn, lines 183-202: one readFromConnection of the data
\* loop, and the exit on its error.
HandleBody(h) ==
    /\ ~panicked
    /\ handlers[h].pc = "body"
    /\ LET me == handlers[h]
           s == me.socket
           have == Len(me.dataBuffer)
           k == Min(Len(sock[s].inbound), me.msgLength - have)
           body == me.dataBuffer \o SubSeq(sock[s].inbound, 1, k)
           rest == SubSeq(sock[s].inbound, k + 1, Len(sock[s].inbound))
       IN  /\ CanRead(s)
           /\ IF sock[s].state # "open"
              THEN HandleExit(h, ErrClosed)
              ELSE IF sock[s].inbound = <<>>
              THEN HandleExit(h, EOF)
              ELSE /\ handlers' = [handlers EXCEPT
                            ![h].pc = IF Len(body) < me.msgLength THEN "body"
                                      ELSE "callback",
                            ![h].dataBuffer = body, ![h].n = Len(body)]
                   /\ sock' = [sock EXCEPT ![s].inbound = rest]
    /\ UNCHANGED <<codec, maxMessageSize, managerVars, dialVars, listener, panicked>>

\* handleListenedConn, lines 204-216: the callback is called with
\* dataBuffer[:iMsgLength] if totalDataBytesRead == 0 (and the data loop
\* ended without an error, as it has here); then the next pass of the loop.
HandleCallback(h) ==
    /\ ~panicked
    /\ handlers[h].pc = "callback"
    /\ LET me == handlers[h]
       IN  IF me.n = 0
           THEN \E e \in CallbackResults :
                  handlers' = [handlers EXCEPT ![h].pc = "header",
                        ![h].delivered =
                            Append(@, SubSeq(me.dataBuffer, 1, me.msgLength)),
                        ![h].callbackErrs = Append(@, e),
                        ![h].dataBuffer = <<>>, ![h].msgLength = 0]
           ELSE handlers' = [handlers EXCEPT ![h].pc = "header",
                        ![h].dataBuffer = <<>>, ![h].msgLength = 0,
                        ![h].n = 0]
    /\ UNCHANGED <<codec, maxMessageSize, managerVars, dialVars, sock, listener,
                   panicked>>

\* The goroutine of one connection that a BuffTCPListener (or the listener
\* of a BuffManager) accepted, and the client of that connection.
BuffListenNext ==
    \/ \E h \in HandlerIds : HandleStart(h)
    \/ \E h \in HandlerIds : HandleHeader(h)
    \/ \E h \in HandlerIds : HandleBody(h)
    \/ \E h \in HandlerIds : HandleCallback(h)
    \/ \E b \in BuffClientBytes : ClientSendFrame(AcceptedSocket, b)
    \/ ClientClose(AcceptedSocket)

SpecBuffListen == PipeInit /\ [][BuffListenNext]_vars

\* ----------------------------------------------------- BuffManager

\* The calls of WriteTo made so far, by all goroutines together.
RECURSIVE SumCalls(_)
SumCalls(T) ==
    IF T = {} THEN 0
    ELSE LET t == CHOOSE u \in T : TRUE
         IN  callers[t].calls + SumCalls(T \ {t})

WriteToCalls == SumCalls(Callers)

\* BuffManager.WriteTo, lines 271-280: the lookup of the address under the
\* read lock; conn is the local variable of this call.
WriteToCall(t, a, d, p) ==
    /\ ~panicked
    /\ callers[t].pc = "idle"
    /\ WriteToCalls < MaxWriteToCalls
    /\ callers' = [callers EXCEPT ![t] =
            [IdleCaller EXCEPT !.op = "WriteTo", !.c = a, !.data = d,
                !.persist = p, !.calls = callers[t].calls + 1,
                !.ret = callers[t].ret,
                !.pc = IF a \in dialedConnections THEN "encode"
                       ELSE "dialOut",
                !.socket = IF a \in dialedConnections THEN conn[a].socket
                           ELSE NoSocket]]
    /\ UNCHANGED <<codec, maxMessageSize, managerVars, listenVars, chunk, reachable,
                   dialedConnections, conn, sock, panicked>>

\* BuffManager.dialOut, all of it under bm.Lock(): an address somebody
\* stored since the lookup is an error; otherwise DialTCP, and the new
\* connection is stored. WriteTo returns (0, err) on its error.
dialOut(t) ==
    /\ ~panicked
    /\ callers[t].pc = "dialOut"
    /\ CanDial
    /\ LET a == callers[t].c
       IN  IF a \in dialedConnections
           THEN /\ callers' = Return(t, "WriteTo", 0, ErrAlreadyOpened)
                /\ UNCHANGED <<dialedConnections, conn, sock>>
           ELSE IF ~reachable
           THEN /\ callers' = Return(t, "WriteTo", 0, ErrDial)
                /\ UNCHANGED <<dialedConnections, conn, sock>>
           ELSE /\ sock' = Dialed(sock)
                /\ conn' = [conn EXCEPT ![a].socket = NextSocket]
                /\ dialedConnections' = dialedConnections \cup {a}
                /\ callers' = [callers EXCEPT ![t].pc = "encode",
                                              ![t].socket = NextSocket]
    /\ UNCHANGED <<codec, maxMessageSize, managerVars, listenVars, chunk, reachable, panicked>>

\* BuffManager.WriteTo, lines 288-293: the header of headerByteSize bytes
\* and the frame toWrite, a slice of this call.
WriteToEncode(t) ==
    /\ ~panicked
    /\ callers[t].pc = "encode"
    /\ LET me == callers[t]
           msgLenHeader == UInt16ToByteArray(UInt16(Len(me.data)),
                                             headerByteSize)
           frame == msgLenHeader \o me.data
       IN  IF PutUint16Panics(headerByteSize)
           THEN /\ panicked' = TRUE
                /\ UNCHANGED callers
           ELSE /\ callers' = [callers EXCEPT ![t].pc = "write",
                        ![t].toWrite = frame, ![t].toWriteLen = Len(frame),
                        ![t].totalBytesWritten = 0, ![t].writeError = Nil]
                /\ UNCHANGED panicked
    /\ UNCHANGED <<codec, maxMessageSize, managerVars, listenVars, chunk, reachable,
                   dialedConnections, conn, sock>>

\* BuffManager.WriteTo, lines 318-324: one pass of the write loop,
\* conn.Write(toWrite[totalBytesWritten:]) on the connection of this call.
WriteToLoop(t) ==
    /\ ~panicked
    /\ callers[t].pc = "write"
    /\ LET me == callers[t]
           s == me.socket
           bytes == SubSeq(me.toWrite, me.totalBytesWritten + 1,
                           me.toWriteLen)
           n == Min(Len(bytes), chunk)
       IN  IF ~(me.totalBytesWritten < me.toWriteLen /\ me.writeError = Nil)
           THEN /\ callers' = [callers EXCEPT ![t].pc = "after"]
                /\ UNCHANGED sock
           ELSE IF ~IsOpen(s) \/ sock[s].peerGone
           THEN /\ callers' = [callers EXCEPT ![t].writeError =
                        IF IsOpen(s) THEN ErrReset ELSE ErrClosed]
                /\ UNCHANGED sock
           ELSE /\ sock' = [sock EXCEPT ![s].wire =
                                @ \o Written(t, SubSeq(bytes, 1, n))]
                /\ callers' = [callers EXCEPT ![t].totalBytesWritten = @ + n]
    /\ UNCHANGED <<codec, maxMessageSize, managerVars, listenVars, chunk, reachable,
                   dialedConnections, conn, panicked>>

\* A WriteTo that closes the connection stored for the address and leaves
\* it in the map.
WriteToAfterNoDelete(t) ==
    /\ ~panicked
    /\ callers[t].pc = "after"
    /\ LET me == callers[t]
           a == me.c
       IN  IF me.writeError # Nil \/ ~me.persist
           THEN /\ sock' = SocketClosed(sock, conn[a].socket)
                /\ callers' = Return(t, "WriteTo", me.totalBytesWritten,
                                     SocketCloseErr(conn[a].socket))
                /\ UNCHANGED <<dialedConnections, conn>>
           ELSE /\ callers' = Return(t, "WriteTo", me.totalBytesWritten,
                                     me.writeError)
                /\ UNCHANGED <<dialedConnections, conn, sock>>
    /\ UNCHANGED <<codec, maxMessageSize, managerVars, listenVars, chunk, reachable, panicked>>

\* BuffManager.WriteTo, lines 326-345, with closeDialer (lines 249-264)
\* under bm.Lock(): after a write error, or with persist false, writeError
\* becomes the result of closeDialer, which closes the connection stored
\* for the address and deletes the address, or returns nil if nothing is
\* stored. WriteTo returns (totalBytesWritten, writeError).
WriteToAfter(t) ==
    /\ ~panicked
    /\ callers[t].pc = "after"
    /\ LET me == callers[t]
           a == me.c
       IN  IF me.writeError # Nil \/ ~me.persist
           THEN IF a \in dialedConnections
                THEN /\ sock' = SocketClosed(sock, conn[a].socket)
                     /\ dialedConnections' = dialedConnections \ {a}
                     /\ conn' = [conn EXCEPT ![a].socket = NoSocket]
                     /\ callers' = Return(t, "WriteTo", me.totalBytesWritten,
                                          SocketCloseErr(conn[a].socket))
                ELSE /\ callers' = Return(t, "WriteTo", me.totalBytesWritten,
                                          Nil)
                     /\ UNCHANGED <<dialedConnections, conn, sock>>
           ELSE /\ callers' = Return(t, "WriteTo", me.totalBytesWritten,
                                     me.writeError)
                /\ UNCHANGED <<dialedConnections, conn, sock>>
    /\ UNCHANGED <<codec, maxMessageSize, managerVars, listenVars, chunk, reachable, panicked>>

\* BuffManager.New: no connection is dialed.
BuffManagerInit ==
    /\ ListenIdle
    /\ ManagerIdle
    /\ codec = IdleCodec
    /\ maxMessageSize \in MaxMessageSizes
    /\ chunk \in ChunkSizes
    /\ reachable = TRUE
    /\ dialedConnections = {}
    /\ sock = [s \in SockIds |-> FreshSocket]
    /\ conn = [c \in Addresses |-> FreshConn]
    /\ callers = [t \in Callers |-> IdleCaller]
    /\ panicked = FALSE

\* The goroutines of src/test/test.go, which call WriteTo on one address
\* of one BuffManager, and the network.
BuffManagerNext ==
    \/ \E t \in Callers, a \in Addresses, d \in Payloads, p \in BOOLEAN :
          WriteToCall(t, a, d, p)
    \/ \E t \in Callers : dialOut(t)
    \/ \E t \in Callers : WriteToEncode(t)
    \/ \E t \in Callers : WriteToLoop(t)
    \/ \E t \in Callers : WriteToAfter(t)
    \/ \E s \in SockIds : PeerReset(s)
    \/ PeerDown
    \/ PeerUp

SpecBuffManager == BuffManagerInit /\ [][BuffManagerNext]_vars

\* ---------------------------------------------------------------- Manager

\* net.ListenTCP inside openSocket fails (the address cannot be bound).
ErrListen == "listen error"

\* The listener of the address before ListenTCP has bound its socket.
UnboundListener == [FreshListener EXCEPT !.acceptPc = "unbound"]

\* Caller t is at position pc of operation op on address a.
At(t, pc, op, a) ==
    [callers EXCEPT ![t].pc = pc, ![t].op = op, ![t].c = a]

\* A Manager.Dial that would not take the dialer lock.
DialUnlocked(t, a) ==
    /\ ~panicked
    /\ callers[t].pc = "idle"
    /\ callers' = At(t, "dialCheck", "Dial", a)
    /\ UNCHANGED <<codec, maxMessageSize, managerVars, listenVars, chunk, reachable,
                   dialedConnections, conn, sock, panicked>>

\* Manager.Dial: bm.dialerLock.Lock()
DialLock(t, a) ==
    /\ ~panicked
    /\ callers[t].pc = "idle"
    /\ dialerLock = Unlocked
    /\ dialerLock' = t
    /\ callers' = At(t, "dialCheck", "Dial", a)
    /\ UNCHANGED <<codec, maxMessageSize, listenVars, listeningSockets, listenerLock,
                   chunk, reachable, dialedConnections, conn, sock, panicked>>

\* Manager.Dial: the lookup in bm.dialedConnections; ErrAlreadyOpened and
\* the deferred Unlock when the address is stored.
DialCheck(t) ==
    /\ ~panicked
    /\ callers[t].pc = "dialCheck"
    /\ IF callers[t].c \in dialedConnections
       THEN /\ callers' = Return(t, "Dial", 0, ErrAlreadyOpened)
            /\ dialerLock' = Unlocked
       ELSE /\ callers' = [callers EXCEPT ![t].pc = "dialTCP"]
            /\ UNCHANGED dialerLock
    /\ UNCHANGED <<codec, maxMessageSize, listenVars, listeningSockets, listenerLock,
                   chunk, reachable, dialedConnections, conn, sock, panicked>>

\* Manager.Dial: btw, err := DialTCP(cfg), the store into the map, the
\* return and the deferred Unlock.
DialStore(t) ==
    /\ ~panicked
    /\ callers[t].pc = "dialTCP"
    /\ CanDial
    /\ IF reachable
       THEN /\ sock' = Dialed(sock)
            /\ conn' = [conn EXCEPT ![callers[t].c] =
                            [FreshConn EXCEPT !.socket = NextSocket]]
            /\ dialedConnections' = dialedConnections \cup {callers[t].c}
            /\ callers' = Return(t, "Dial", 0, Nil)
       ELSE /\ callers' = Return(t, "Dial", 0, ErrDial)
            /\ UNCHANGED <<dialedConnections, conn, sock>>
    /\ dialerLock' = Unlocked
    /\ UNCHANGED <<codec, maxMessageSize, listenVars, listeningSockets, listenerLock,
                   chunk, reachable, panicked>>

\* Manager.CloseWriter: bm.dialerLock.Lock()
CloseWriterLock(t, a) ==
    /\ ~panicked
    /\ callers[t].pc = "idle"
    /\ dialerLock = Unlocked
    /\ dialerLock' = t
    /\ callers' = At(t, "closeWriter", "CloseWriter", a)
    /\ UNCHANGED <<codec, maxMessageSize, listenVars, listeningSockets, listenerLock,
                   chunk, reachable, dialedConnections, conn, sock, panicked>>

\* Manager.CloseWriter: the lookup, return btw.Close() or ErrNotOpened, and
\* the deferred Unlock.
CloseWriterBody(t) ==
    /\ ~panicked
    /\ callers[t].pc = "closeWriter"
    /\ IF callers[t].c \in dialedConnections
       THEN /\ callers' = Return(t, "CloseWriter", 0, CloseErr(callers[t].c))
            /\ sock' = CloseEffect(sock, callers[t].c)
       ELSE /\ callers' = Return(t, "CloseWriter", 0, ErrNotOpened)
            /\ UNCHANGED sock
    /\ dialerLock' = Unlocked
    /\ UNCHANGED <<codec, maxMessageSize, listenVars, listeningSockets, listenerLock,
                   chunk, reachable, dialedConnections, conn, panicked>>

\* A Manager.StartListening that would not look the address up.
StartListeningUnchecked(t) ==
    /\ ~panicked
    /\ callers[t].pc = "listenCheck"
    /\ callers' = [callers EXCEPT ![t].pc = "listenTCP"]
    /\ UNCHANGED <<codec, maxMessageSize, managerVars, listenVars, chunk, reachable,
                   dialedConnections, conn, sock, panicked>>

\* Manager.StartListening: bm.listenerLock.Lock()
StartListeningLock(t, a) ==
    /\ ~panicked
    /\ callers[t].pc = "idle"
    /\ listenerLock = Unlocked
    /\ listenerLock' = t
    /\ callers' = At(t, "listenCheck", "StartListening", a)
    /\ UNCHANGED <<codec, maxMessageSize, listenVars, listeningSockets, dialerLock,
                   chunk, reachable, dialedConnections, conn, sock, panicked>>

\* Manager.StartListening: the lookup in bm.listeningSockets;
\* ErrAlreadyOpened and the deferred Unlock when the address is stored.
StartListeningCheck(t) ==
    /\ ~panicked
    /\ callers[t].pc = "listenCheck"
    /\ IF callers[t].c \in listeningSockets
       THEN /\ callers' = Return(t, "StartListening", 0, ErrAlreadyOpened)
            /\ listenerLock' = Unlocked
       ELSE /\ callers' = [callers EXCEPT ![t].pc = "listenTCP"]
            /\ UNCHANGED listenerLock
    /\ UNCHANGED <<codec, maxMessageSize, listenVars, listeningSockets, dialerLock,
                   chunk, reachable, dialedConnections, conn, sock, panicked>>

\* Manager.StartListening: btl, err := ListenTCP(cfg) binds the address or
\* fails (always, when the address is bound already); on success the
\* store into the map and StartListeningAsync, which spawns the goroutine
\* of blockListen and returns nil. Then the deferred Unlock.
StartListeningStore(t) ==
    /\ ~panicked
    /\ callers[t].pc = "listenTCP"
    /\ \E bound \in {listener.acceptPc = "unbound", FALSE} :
          IF bound
          THEN /\ listener' = FreshListener
               /\ listeningSockets' = listeningSockets \cup {callers[t].c}
               /\ callers' = Return(t, "StartListening", 0, Nil)
          ELSE /\ callers' = Return(t, "StartListening", 0, ErrListen)
               /\ UNCHANGED <<listener, listeningSockets>>
    /\ listenerLock' = Unlocked
    /\ UNCHANGED <<codec, maxMessageSize, handlers, dialerLock, chunk, reachable,
                   dialedConnections, conn, sock, panicked>>

\* Manager.CloseListener: bm.listenerLock.Lock()
CloseListenerLock(t, a) ==
    /\ ~panicked
    /\ callers[t].pc = "idle"
    /\ listenerLock = Unlocked
    /\ listenerLock' = t
    /\ callers' = At(t, "closeListener", "CloseListener", a)
    /\ UNCHANGED <<codec, maxMessageSize, listenVars, listeningSockets, dialerLock,
                   chunk, reachable, dialedConnections, conn, sock, panicked>>

\* Manager.CloseListener: the lookup; ErrNotOpened and the deferred Unlock
\* when the address is not stored, otherwise btl.Close() begins with
\* close(btl.shutdownChannel), a panic on a closed channel.
CloseListenerClose(t) ==
    /\ ~panicked
    /\ callers[t].pc = "closeListener"
    /\ IF callers[t].c \notin listeningSockets
       THEN /\ callers' = Return(t, "CloseListener", 0, ErrNotOpened)
            /\ listenerLock' = Unlocked
            /\ UNCHANGED <<listener, panicked>>
       ELSE IF listener.shutdownChannel = "closed"
       THEN /\ panicked' = TRUE
            /\ listener' = [listener EXCEPT !.closePc = "close"]
            /\ UNCHANGED <<callers, listenerLock>>
       ELSE /\ listener' = [listener EXCEPT !.shutdownChannel = "closed",
                                            !.closePc = "wait"]
            /\ callers' = [callers EXCEPT ![t].pc = "closeListenerWait"]
            /\ UNCHANGED <<listenerLock, panicked>>
    /\ UNCHANGED <<codec, maxMessageSize, handlers, listeningSockets, dialerLock,
                   chunk, reachable, dialedConnections, conn, sock>>

\* Manager.CloseListener: btl.shutdownGroup.Wait() returns, then return nil
\* and the deferred Unlock.
CloseListenerReturn(t) ==
    /\ ~panicked
    /\ callers[t].pc = "closeListenerWait"
    /\ listener.shutdownGroup = 0
    /\ listener' = [listener EXCEPT !.closePc = "returned"]
    /\ callers' = Return(t, "CloseListener", 0, Nil)
    /\ listenerLock' = Unlocked
    /\ UNCHANGED <<codec, maxMessageSize, handlers, listeningSockets, dialerLock,
                   chunk, reachable, dialedConnections, conn, sock, panicked>>

\* One step of goroutine t calling the Manager.
ManagerStep(t) ==
    \/ \E a \in Addresses : DialLock(t, a)
    \/ DialCheck(t)
    \/ DialStore(t)
    \/ \E a \in Addresses : CloseWriterLock(t, a)
    \/ CloseWriterBody(t)
    \/ \E a \in Addresses : StartListeningLock(t, a)
    \/ StartListeningCheck(t)
    \/ StartListeningStore(t)
    \/ \E a \in Addresses : CloseListenerLock(t, a)
    \/ CloseListenerClose(t)
    \/ CloseListenerReturn(t)

\* NewManager: nothing is dialed, nothing listens.
ManagerInit ==
    /\ maxMessageSize \in MaxMessageSizes
    /\ chunk \in ChunkSizes
    /\ reachable = TRUE
    /\ dialedConnections = {}
    /\ conn = [c \in Addresses |-> FreshConn]
    /\ sock = [s \in SockIds |-> FreshSocket]
    /\ callers = [t \in Callers |-> IdleCaller]
    /\ panicked = FALSE
    /\ listener = UnboundListener
    /\ handlers = [h \in HandlerIds |-> NoHandler]
    /\ ManagerIdle
    /\ codec = IdleCodec

\* Goroutines calling Dial, CloseWriter, StartListening and CloseListener
\* of one Manager at the same time; the goroutine that StartListeningAsync
\* spawned enters blockListen.
ManagerNext ==
    \/ \E t \in Callers : ManagerStep(t)
    \/ StartListening

SpecManager == ManagerInit /\ [][ManagerNext]_vars

\* ------------------------------------------- constructors and header codec

DefaultMaxMessageSize == 4096

\* The message sizes whose header width is computed.
MessageSizes ==
    {1, 8, 32, 64, 255, 256, 257, 512, 2048, 4096, 8192, 65535, 65536, 70000}

\* The MaxMessageSize values whose headers are encoded and decoded.
HeaderSizes == {1, 256, 65536}

\* The lengths encoded for MaxMessageSize m: the small ones and the
\* largest ones.
Lengths(m) == (0..Min(m, 256)) \cup {m - 1, m}

\* The MaxMessageSize values a configuration is constructed with.
ConfigSizes == {0 - 1, 0, 1, 256}

\* int(f) of a float64 that is NaN or -Inf (math.Log2 of a number that is
\* not positive) is implementation-defined: the most negative int on
\* amd64, written -1 here, or 0.
NaNAsInt == {0 - 1, 0}

\* The call op(messageSize, value) about to be made.
CodecCall(op, messageSize, value) ==
    [IdleCodec EXCEPT !.op = op, !.pc = "call", !.messageSize = messageSize,
                      !.value = value]

CodecCalls ==
    {CodecCall("MessageSizeToBitLength", n, 0) : n \in MessageSizes}
        \cup UNION {{CodecCall("header", m, L) : L \in Lengths(m)} :
                        m \in HeaderSizes}
        \cup {CodecCall(op, m, 0) :
                    op \in {"newTCPConn", "ListenTCP"}, m \in ConfigSizes}

\* MessageSizeToBitLength(messageSize)
MessageSizeToBitLengthCall ==
    /\ ~panicked
    /\ codec.op = "MessageSizeToBitLength"
    /\ codec.pc = "call"
    /\ codec' = [codec EXCEPT !.pc = "done",
            !.headerByteSize = messageSizeToBitLength(codec.messageSize)]
    /\ UNCHANGED <<maxMessageSize, sock, panicked, dialVars, listenVars,
                   managerVars>>

\* BuffTCPWriter.Write: UInt16ToByteArray(uint16(len(data)), headerByteSize)
\* with the headerByteSize of the connection's MaxMessageSize.
EncodeHeader ==
    /\ ~panicked
    /\ codec.op = "header"
    /\ codec.pc = "call"
    /\ LET width == messageSizeToBitLength(codec.messageSize)
       IN  IF PutUint16Panics(width)
           THEN /\ panicked' = TRUE
                /\ codec' = [codec EXCEPT !.pc = "done",
                                          !.headerByteSize = width]
           ELSE /\ codec' = [codec EXCEPT !.pc = "encoded",
                        !.headerByteSize = width,
                        !.bytes = UInt16ToByteArray(UInt16(codec.value), width)]
                /\ UNCHANGED panicked
    /\ UNCHANGED <<maxMessageSize, sock, dialVars, listenVars, managerVars>>

\* The receiving side decodes the header.
DecodeHeader ==
    /\ ~panicked
    /\ codec.op = "header"
    /\ codec.pc = "encoded"
    /\ codec' = [codec EXCEPT !.pc = "done",
                              !.decoded = byteArrayToUInt32(codec.bytes)[1]]
    /\ UNCHANGED <<maxMessageSize, sock, panicked, dialVars, listenVars,
                   managerVars>>

\* A newTCPConn that would take MaxMessageSize 0 as it is.
NewTCPConnNoDefault ==
    /\ ~panicked
    /\ codec.op = "newTCPConn"
    /\ codec.pc = "call"
    /\ LET m == codec.messageSize
       IN  \E hb \in (IF m > 0 THEN {messageSizeToBitLength(m)}
                                ELSE NaNAsInt) :
              IF hb < 0 \/ m < 0
              THEN /\ panicked' = TRUE
                   /\ codec' = [codec EXCEPT !.pc = "done",
                                             !.headerByteSize = hb]
              ELSE /\ codec' = [codec EXCEPT !.pc = "done",
                                             !.headerByteSize = hb,
                                             !.made = "conn", !.err = Nil,
                                             !.maxMessageSize = m]
                   /\ UNCHANGED panicked
    /\ UNCHANGED <<maxMessageSize, sock, dialVars, listenVars, managerVars>>

\* newTCPConn: 0 stands for the default; the header size and the two
\* make([]byte, n), which panic on a negative n; the error is always nil.
NewTCPConnCall ==
    /\ ~panicked
    /\ codec.op = "newTCPConn"
    /\ codec.pc = "call"
    /\ LET m == IF codec.messageSize # 0 THEN codec.messageSize
                ELSE DefaultMaxMessageSize
       IN  \E hb \in (IF m > 0 THEN {messageSizeToBitLength(m)}
                                ELSE NaNAsInt) :
              IF hb < 0 \/ m < 0
              THEN /\ panicked' = TRUE
                   /\ codec' = [codec EXCEPT !.pc = "done",
                                             !.headerByteSize = hb]
              ELSE /\ codec' = [codec EXCEPT !.pc = "done",
                                             !.headerByteSize = hb,
                                             !.made = "conn", !.err = Nil,
                                             !.maxMessageSize = m]
                   /\ UNCHANGED panicked
    /\ UNCHANGED <<maxMessageSize, sock, dialVars, listenVars, managerVars>>

\* ListenTCP: 0 stands for the default; the configuration is stored and
\* the socket bound; the only error is the error of openSocket.
ListenTCPCall ==
    /\ ~panicked
    /\ codec.op = "ListenTCP"
    /\ codec.pc = "call"
    /\ LET m == IF codec.messageSize # 0 THEN codec.messageSize
                ELSE DefaultMaxMessageSize
       IN  \E bound \in BOOLEAN :
              codec' = [codec EXCEPT !.pc = "done",
                            !.made = IF bound THEN "listener" ELSE "nothing",
                            !.err = IF bound THEN Nil ELSE ErrListen,
                            !.maxMessageSize = IF bound THEN m ELSE 0]
    /\ UNCHANGED <<maxMessageSize, sock, panicked, dialVars, listenVars,
                   managerVars>>

\* One call of a constructor or of a header function; nothing is dialed
\* and nothing listens.
CodecInit ==
    /\ maxMessageSize = DefaultMaxMessageSize
    /\ chunk = 1
    /\ reachable = TRUE
    /\ dialedConnections = {}
    /\ conn = [c \in Addresses |-> [FreshConn EXCEPT !.outgoingDataBuffer =
                                        [ptr |-> <<>>, len |-> 0]]]
    /\ sock = [s \in SockIds |-> FreshSocket]
    /\ callers = [t \in Callers |-> IdleCaller]
    /\ panicked = FALSE
    /\ ListenIdle
    /\ listeningSockets = {}
    /\ dialerLock = Unlocked
    /\ listenerLock = Unlocked
    /\ codec \in CodecCalls

CodecNext ==
    \/ MessageSizeToBitLengthCall
    \/ EncodeHeader
    \/ DecodeHeader
    \/ NewTCPConnCall
    \/ ListenTCPCall

SpecCodec == CodecInit /\ [][CodecNext]_vars

\* ------------------------------------------------------------------ claims

IsPrefix(p, q) == Len(p) <= Len(q) /\ p = SubSeq(q, 1, Len(p))

\* Where on the wire of socket s the bytes of caller t's current call lie.
OwnPositions(s, t) ==
    {i \in 1..Len(sock[s].wire) :
        /\ sock[s].wire[i].by = t
        /\ sock[s].wire[i].call = callers[t].calls}

Contiguous(P) == \A i \in P, j \in P : \A k \in i..j : k \in P

\* The bytes of caller t's current call on socket s, in wire order (for a
\* contiguous set of positions).
OwnBytes(s, t) ==
    LET P == OwnPositions(s, t)
        first == CHOOSE i \in P : \A j \in P : i <= j
    IN  [k \in 1..Cardinality(P) |-> sock[s].wire[first + k - 1].b]

\* C1: when goroutines call Write concurrently on one connection, the bytes
\* each call puts on the socket are one unbroken run (no byte of another
\* call in between) and are the bytes of that call's own frame, header then
\* payload: all of the frame once the call has written without error.
C1_WholeFrames ==
    \A t \in Callers, s \in SockIds :
        (callers[t].pc # "idle" /\ OwnPositions(s, t) # {}) =>
            /\ Contiguous(OwnPositions(s, t))
            /\ IsPrefix(OwnBytes(s, t),
                        Frame(callers[t].data, headerByteSize))
            /\ (callers[t].pc = "after" /\ callers[t].writeError = Nil) =>
                    OwnBytes(s, t) = Frame(callers[t].data, headerByteSize)

\* The socket of the dialed connection c is open.
ConnOpen(c) == IsOpen(conn[c].socket)

\* Caller t is in a Manager.Write whose connection write has failed.
FailedManagerWrite(t) ==
    /\ callers[t].op = "MWrite"
    /\ callers[t].pc \in {"after", "reopen", "open"}
    /\ callers[t].writeError # Nil

\* C2: when a Manager.Write whose write failed returns while the address is
\* reachable, the reopen it triggered has left the connection open, so
\* that the next Manager.Write can succeed without a new Dial.
C2_ReopenedAfterFailure ==
    [][\A t \in SeqCallers :
        (FailedManagerWrite(t) /\ callers'[t].pc = "idle" /\ reachable) =>
            sock'[conn'[callers[t].c].socket].state = "open"]_vars

\* C7: a Manager.Write whose connection write failed returns the byte
\* count and the error of that write, whatever its reopen did.
C7_OriginalError ==
    [][\A t \in SeqCallers :
        (FailedManagerWrite(t) /\ callers'[t].pc = "idle") =>
            callers'[t].ret = [n |-> callers[t].totalBytesWritten,
                               err |-> callers[t].writeError]]_vars

\* A Manager.Write has returned a partial byte count with the write error.
C7_Witness ==
    \E t \in SeqCallers :
        /\ callers[t].pc = "idle"
        /\ callers[t].op = "MWrite"
        /\ callers[t].ret.err = ErrReset
        /\ callers[t].ret.n > 0

\* C8: a TCPConn.Write that returned a socket write error has closed the
\* socket and returned that error, and a Write on a connection whose socket
\* is closed ends with an error.
C8_DeadAfterWriteError ==
    \A t \in SeqCallers :
        /\ (callers[t].pc = "idle" /\ callers[t].op = "Write"
                /\ callers[t].ret.err # Nil) =>
              /\ ~ConnOpen(callers[t].c)
              /\ callers[t].ret.err \in {ErrReset, ErrClosed}
        /\ (callers[t].pc = "after" /\ ~ConnOpen(callers[t].c)) =>
              callers[t].writeError # Nil

\* A second Write on the instance fails after the first returned an error.
C8_Witness ==
    \E t \in SeqCallers :
        /\ callers[t].pc = "after"
        /\ callers[t].op = "Write"
        /\ callers[t].calls = 2
        /\ callers[t].ret.err = ErrReset
        /\ callers[t].writeError = ErrClosed

\* The bytes of caller t's current call that the socket of its connection
\* has taken.
Accepted(t) == Cardinality(OwnPositions(conn[callers[t].c].socket, t))

\* C21: on a transport that takes at least one byte, and possibly only
\* one, of every write call and never fails, a Write that has begun ends:
\* it reaches its return with every byte of the frame on the wire exactly
\* once and in order, and then returns the frame's length and no error.
C21_WriteTerminates ==
    \A t \in SeqCallers :
        /\ (callers[t].pc = "store") ~>
              (/\ callers[t].pc = "after"
               /\ callers[t].writeError = Nil
               /\ Contiguous(OwnPositions(conn[callers[t].c].socket, t))
               /\ Accepted(t) = headerByteSize + Len(callers[t].data)
               /\ OwnBytes(conn[callers[t].c].socket, t) =
                      Frame(callers[t].data, headerByteSize))
        /\ (callers[t].pc = "after") ~>
              (/\ callers[t].pc = "idle"
               /\ callers[t].ret.err = Nil
               /\ callers[t].ret.n = Accepted(t))

C21_Witness ==
    \E t \in SeqCallers :
        /\ chunk = 1
        /\ callers[t].pc = "after"
        /\ callers[t].writeError = Nil
        /\ callers[t].totalBytesWritten = 3
        /\ OwnBytes(conn[callers[t].c].socket, t) =
               Frame(<<8, 9>>, headerByteSize)

\* C22: the n that TCPConn.Write returns is the number of frame bytes the
\* socket accepted in this call, and the error it returns is nil exactly
\* when n is the whole frame, headerByteSize + len(payload); a write that
\* is not complete comes with an error.
C22_WriteResult ==
    [][\A t \in SeqCallers :
          (callers[t].pc = "after" /\ callers[t].op = "Write"
              /\ callers'[t].pc = "idle") =>
             /\ callers'[t].ret.n = Accepted(t)
             /\ (callers'[t].ret.err = Nil) <=>
                    (callers'[t].ret.n =
                        headerByteSize + Len(callers[t].data))]_vars

C22_Witness ==
    \E t \in SeqCallers :
        /\ callers[t].pc = "idle"
        /\ callers[t].op = "Write"
        /\ callers[t].ret.err = ErrReset
        /\ callers[t].ret.n > 0
        /\ callers[t].ret.n < headerByteSize + 2

\* The header of the frame that begins at position i of a wire, read as
\* the listener reads it.
HeaderAt(wire, i) ==
    byteArrayToUInt32([k \in 1..headerByteSize |-> wire[i + k - 1].b])[1]

\* C30: a Write whose payload is longer than maxMessageSize puts no frame
\* on the wire whose header announces more than maxMessageSize: the call
\* is rejected, or the payload is cut to maxMessageSize.
C30_NoOversizeFrame ==
    \A t \in SeqCallers, s \in SockIds :
        LET P == OwnPositions(s, t)
            first == CHOOSE i \in P : \A j \in P : i <= j
        IN  (callers[t].pc \in {"loop", "after"}
                /\ Cardinality(P) >= headerByteSize) =>
                HeaderAt(sock[s].wire, first) <= maxMessageSize

\* ------------------------------------------------------- Manager claims

\* Caller t returns from operation op in this step.
Returns(t, op) ==
    /\ callers'[t].pc = "idle"
    /\ callers'[t].op = op
    /\ callers'[t] # callers[t]

\* C12: Reopen is Close followed by a re-dial: whenever the address is
\* reachable, a Reopen that returns has returned nil and left the
\* connection open, also when the connection was closed before the call.
C12_ReopenRedials ==
    [][\A t \in SeqCallers :
          (callers[t].op = "Reopen" /\ callers[t].pc \in {"reopen", "open"}
                /\ Returns(t, "Reopen") /\ reachable) =>
              /\ callers'[t].ret.err = Nil
              /\ sock'[conn'[callers[t].c].socket].state = "open"]_vars

\* C14: a Dial for an address that has a stored connection returns
\* ErrAlreadyOpened, opens no socket and leaves the stored connection and
\* its socket as they were.
C14_DuplicateDial ==
    [][\A t \in SeqCallers :
          (callers[t].pc = "idle" /\ Returns(t, "Dial")
                /\ callers'[t].c \in dialedConnections) =>
              /\ callers'[t].ret.err = ErrAlreadyOpened
              /\ sock' = sock
              /\ conn' = conn
              /\ dialedConnections' = dialedConnections]_vars

\* A second Dial was refused and the first connection is open.
C14_Witness ==
    \E t \in SeqCallers :
        /\ callers[t].pc = "idle"
        /\ callers[t].op = "Dial"
        /\ callers[t].ret.err = ErrAlreadyOpened
        /\ ConnOpen(callers[t].c)

\* C17: a CloseWriter that finds the connection closes it and removes the
\* address from the outbound map.
C17_CloseWriterRemoves ==
    [][\A t \in SeqCallers :
          (callers[t].pc = "idle" /\ Returns(t, "Close")
                /\ callers'[t].ret.err # ErrNotOpened) =>
              /\ ~IsOpen(conn'[callers'[t].c].socket)
              /\ callers'[t].c \notin dialedConnections']_vars

LiveOutbound == {s \in SockIds : sock[s].state = "open"}

\* C13: under concurrent Dial, CloseWriter, StartListening and
\* CloseListener there is at most one live outbound connection and at most
\* one listener per address: every live outbound socket is the socket of
\* the connection stored for its address, a listener is bound exactly when
\* it is stored, and of the Dial calls that have returned at most one
\* dialed, the others having got ErrAlreadyOpened.
C13_OnePerAddress ==
    /\ \A s \in LiveOutbound :
          \E a \in dialedConnections : conn[a].socket = s
    /\ Cardinality(LiveOutbound) <= Cardinality(dialedConnections)
    /\ \A a \in Addresses :
          (a \in listeningSockets) <=> (listener.acceptPc # "unbound")
    /\ \A t \in Callers :
          (callers[t].pc = "idle" /\ callers[t].op = "Dial") =>
              /\ callers[t].ret.err \in {Nil, ErrAlreadyOpened}
              /\ callers[t].c \in dialedConnections
              /\ \A u \in Callers \ {t} :
                    (callers[u].pc = "idle" /\ callers[u].op = "Dial") =>
                        ~(callers[t].ret.err = Nil /\ callers[u].ret.err = Nil)

\* Two goroutines have returned from Dial for the same address, one with
\* nil and one with ErrAlreadyOpened, and a listener is stored.
C13_Witness ==
    /\ \E t, u \in Callers :
          /\ callers[t].pc = "idle" /\ callers[t].op = "Dial"
          /\ callers[t].ret.err = Nil
          /\ callers[u].pc = "idle" /\ callers[u].op = "Dial"
          /\ callers[u].ret.err = ErrAlreadyOpened
          /\ callers[t].c = callers[u].c
    /\ listeningSockets # {}
    /\ Cardinality(LiveOutbound) = 1

\* C15: StartListening returns ErrAlreadyOpened and leaves the stored
\* listener and the map alone when the address has a listener; otherwise
\* it has bound a new listener, spawned its accept loop and stored it
\* when it returns nil, and changed nothing when the bind failed.
C15_StartListening ==
    [][\A t \in Callers :
          (callers[t].op = "StartListening"
                /\ callers[t].pc \in {"listenCheck", "listenTCP"}
                /\ callers'[t].pc = "idle") =>
              IF callers[t].c \in listeningSockets
              THEN /\ callers'[t].ret.err = ErrAlreadyOpened
                   /\ listener' = listener
                   /\ listeningSockets' = listeningSockets
              ELSE \/ /\ callers'[t].ret.err = Nil
                      /\ listener' = FreshListener
                      /\ listeningSockets' =
                            listeningSockets \cup {callers[t].c}
                   \/ /\ callers'[t].ret.err = ErrListen
                      /\ listener' = listener
                      /\ listeningSockets' = listeningSockets]_vars

\* A second StartListening was refused while the accept loop of the
\* stored listener runs.
C15_Witness ==
    \E t \in Callers :
        /\ callers[t].pc = "idle"
        /\ callers[t].op = "StartListening"
        /\ callers[t].ret.err = ErrAlreadyOpened
        /\ callers[t].c \in listeningSockets
        /\ listener.acceptPc = "accept"

\* C16: CloseListener returns ErrNotOpened for an address without a
\* listener; otherwise, when it returns, the listener is closed and the
\* address is no longer in the listener map.
C16_CloseListenerRemoves ==
    [][\A t \in Callers :
          (callers[t].op = "CloseListener"
                /\ callers[t].pc \in {"closeListener", "closeListenerWait"}
                /\ callers'[t].pc = "idle") =>
              IF callers[t].pc = "closeListener"
              THEN /\ callers[t].c \notin listeningSockets
                   /\ callers'[t].ret.err = ErrNotOpened
              ELSE /\ callers'[t].ret.err = Nil
                   /\ listener'.shutdownChannel = "closed"
                   /\ callers[t].c \notin listeningSockets']_vars

\* ------------------------------------------------------ listener claims

\* The callbacks made so far, per handler.
Delivered == [h \in HandlerIds |-> handlers[h].delivered]

\* C3: once TCPListener.Close has returned, the callback is not invoked
\* again: no step taken after the return adds a delivered message.
C3_NoCallbackAfterClose ==
    [][listener.closePc = "returned" => Delivered' = Delivered]_vars

\* C4: the handler of an accepted connection is counted in the shutdown
\* group before its receive loop starts: when the wait of Close returns,
\* every handler spawned for an accepted connection has exited.
C4_WaitCoversSpawned ==
    [][(listener.closePc = "wait" /\ listener'.closePc = "returned") =>
          \A h \in HandlerIds :
              handlers[h].socket # NoSocket =>
                  handlers[h].pc \in {"none", "exited"}]_vars

\* C5: no connection that arrives after Close was called is accepted: no
\* handler ever holds a socket that connected after the shutdown.
C5_NoAcceptAfterClose ==
    \A h \in HandlerIds :
        (handlers[h].pc # "none" /\ handlers[h].socket # NoSocket) =>
            ~sock[handlers[h].socket].late

\* C6: after Close the accept loop eventually stops: once blockListen is
\* running and Close has been called, blockListen returns (unless the
\* process has died of a panic meanwhile).
C6_AcceptLoopStops ==
    (listener.shutdownChannel = "closed" /\ listener.acceptPc # "inert"
        /\ ~panicked)
      ~> (listener.acceptPc = "returned" \/ panicked)

\* C9: a header that announces more than maxMessageSize bytes is answered
\* with a protocol error and a closed connection: the Read that decodes it
\* returns an error with the socket closed, and the process does not crash.
C9_OversizeRejected ==
    [][\A h \in HandlerIds :
          (handlers[h].pc = "header" /\ handlers'[h].msgLength > maxMessageSize) =>
              /\ ~panicked'
              /\ handlers'[h].pc = "returned"
              /\ handlers'[h].err # Nil
              /\ sock'[handlers[h].socket].state # "open"]_vars

\* C10: whenever Read or Write returns an error, the connection is
\* Closed: its socket is not open when the caller gets the error.
C10_ErrorLeavesClosed ==
    /\ \A h \in HandlerIds :
          (handlers[h].pc = "returned" /\ handlers[h].err # Nil) =>
              ~IsOpen(handlers[h].socket)
    /\ \A t \in Callers :
          (callers[t].pc = "idle" /\ callers[t].op = "Write"
                /\ callers[t].ret.err # Nil) => ~ConnOpen(callers[t].c)

\* C19: a second call of TCPListener.Close on the same listener does not
\* panic: a Close that begins after an earlier Close has returned leaves
\* the process alive.
C19_SecondCloseBenign ==
    [][(listener.closePc = "returned" /\ listener'.closePc # "returned") =>
          ~panicked']_vars

\* ------------------------------------------- closed connection claims

\* The socket of handler h is closed on this side.
HandlerClosed(h) ==
    /\ handlers[h].socket # NoSocket
    /\ sock[handlers[h].socket].state = "closed"

\* The readLoop of handler h takes a step of its Read.
ReadStep(h) ==
    /\ handlers[h].pc \in {"header", "body"}
    /\ handlers'[h].watcher = handlers[h].watcher
    /\ handlers'[h] # handlers[h]

\* C11: on a Closed TCPConn every Write and every Read fails at once with
\* an error and moves no payload byte: the write loop sets its error and
\* puts nothing on the wire, Write returns (0, error), a step of Read
\* returns an error and takes nothing from the socket; a closed socket
\* stays closed, and a connection leaves Closed only inside Reopen.
C11_ClosedIsTerminal ==
    [][/\ \A t \in SeqCallers :
            /\ (callers[t].pc = "loop" /\ ~ConnOpen(callers[t].c)
                    /\ callers'[t] # callers[t]) =>
                  /\ callers'[t].writeError # Nil
                  /\ callers'[t].totalBytesWritten = 0
                  /\ sock' = sock
            /\ (callers[t].pc = "after" /\ callers[t].op = "Write"
                    /\ ~ConnOpen(callers[t].c)
                    /\ callers'[t].pc = "idle") =>
                  /\ callers'[t].ret.err # Nil
                  /\ callers'[t].ret.n = 0
       /\ \A h \in HandlerIds :
            (HandlerClosed(h) /\ ReadStep(h)) =>
                /\ handlers'[h].pc = "returned"
                /\ handlers'[h].err # Nil
                /\ handlers'[h].dataBuffer = handlers[h].dataBuffer
                /\ sock' = sock
       /\ \A s \in DOMAIN sock :
            sock[s].state = "closed" => sock'[s].state = "closed"
       /\ \A c \in dialedConnections :
            (~ConnOpen(c) /\ IsOpen(conn[c].socket)') =>
                \E t \in SeqCallers :
                    callers[t].op = "Reopen" /\ callers[t].pc = "open"]_vars

\* A Write on the closed connection has returned (0, error), a Read on a
\* closed accepted connection has returned an error, and a Reopen has
\* taken the dialed connection out of Closed.
C11_Witness ==
    /\ \E t \in SeqCallers :
          /\ callers[t].pc = "idle"
          /\ callers[t].op = "Write"
          /\ callers[t].ret = [n |-> 0, err |-> ErrClosed]
          /\ conn[callers[t].c].socket # 1
    /\ \E h \in HandlerIds :
          /\ handlers[h].pc = "returned"
          /\ handlers[h].err = ErrClosed
          /\ HandlerClosed(h)

\* C20: a Close of a connection that is closed already does not panic and
\* leaves it Closed: called again by the application it returns the
\* already-closed error; called by the shutdown goroutine and by the
\* readLoop of the same accepted connection, in either order, the second
\* call changes nothing.
C20_SecondCloseBenign ==
    [][/\ \A t \in SeqCallers :
            (callers[t].pc = "idle" /\ Returns(t, "Close")
                    /\ callers[t].c \in dialedConnections
                    /\ ~ConnOpen(callers[t].c)) =>
                /\ ~panicked'
                /\ callers'[t].ret.err = ErrClosed
                /\ sock' = sock
       /\ \A h \in HandlerIds :
            (/\ HandlerClosed(h)
             /\ \/ handlers[h].watcher = "waiting"
                      /\ handlers'[h].watcher = "done"
                \/ handlers[h].pc = "returned"
                      /\ handlers'[h].pc = "exited") =>
                /\ ~panicked'
                /\ sock' = sock]_vars

\* The application has closed its connection twice, and the shutdown
\* goroutine and the readLoop have both closed the accepted connection.
C20_Witness ==
    /\ ~panicked
    /\ \E t \in SeqCallers :
          /\ callers[t].pc = "idle"
          /\ callers[t].op = "Close"
          /\ callers[t].ret.err = ErrClosed
    /\ \E h \in HandlerIds :
          /\ handlers[h].pc = "exited"
          /\ handlers[h].watcher = "done"
          /\ HandlerClosed(h)

\* ------------------------------------------------- end-to-end claims

\* The bytes that call k of caller t has put on the dialed socket, in
\* wire order.
CallBytes(t, k) ==
    LET w == sock[DialedSocket].wire
        P == {i \in 1..Len(w) : w[i].by = t /\ w[i].call = k}
        first == CHOOSE i \in P : \A j \in P : i <= j
    IN  [i \in 1..Cardinality(P) |-> w[first + i - 1].b]

\* The payloads whose whole frame caller t has put on the wire, in the
\* order of the calls: what follows the header in the bytes of each call
\* that wrote its frame to the end.
SentPayloads(t) ==
    LET whole == {k \in 1..callers[t].calls :
                    /\ Len(CallBytes(t, k)) >= headerByteSize
                    /\ (k = callers[t].calls /\ callers[t].pc # "idle") =>
                          Len(CallBytes(t, k)) =
                              headerByteSize + Len(callers[t].data)}
        nth[i \in 1..Cardinality(whole)] ==
            CHOOSE k \in whole : Cardinality({j \in whole : j < k}) = i - 1
    IN  [i \in 1..Cardinality(whole) |->
            SubSeq(CallBytes(t, nth[i]), headerByteSize + 1,
                   Len(CallBytes(t, nth[i])))]

\* Nothing is on its way: the caller is between calls, every byte written
\* has arrived and has been read, and the handler is between two frames or
\* has left its loop.
PipeQuiet(t, h) ==
    /\ callers[t].pc = "idle"
    /\ sock[AcceptedSocket].sent = Len(sock[DialedSocket].wire)
    /\ sock[AcceptedSocket].inbound = <<>>
    /\ handlers[h].pc \in {"header", "exited"}
    /\ handlers[h].incomingHeaderBuffer = <<>>

\* C23: for payloads no longer than maxMessageSize that one caller sends
\* through one connection to a listener with the same maxMessageSize, the
\* callback is invoked once per message, in the order sent, with exactly
\* the bytes of the payload: what has been delivered is always the first
\* messages sent, and all of them once nothing is on its way.
C23_ExactlyOnceInOrder ==
    \A t \in SeqCallers :
        /\ IsPrefix(handlers[1].delivered, SentPayloads(t))
        /\ PipeQuiet(t, 1) => handlers[1].delivered = SentPayloads(t)

C23_Witness ==
    /\ PipeQuiet(1, 1)
    /\ chunk = 1
    /\ Len(handlers[1].delivered) = 2
    /\ handlers[1].delivered[1] # handlers[1].delivered[2]
    /\ handlers[1].delivered = SentPayloads(1)

\* The read loop of handler h calls the callback in this step.
CallbackStep(h) ==
    Len(handlers'[h].callbackErrs) = Len(handlers[h].callbackErrs) + 1

\* C24: a callback that returns an error neither closes the connection nor
\* ends the read loop: the step in which it returns leaves the socket as it
\* is and the loop at its next Read, and the next frame that Read returns
\* is handed to the callback like any other.
C24_CallbackErrorIgnored ==
    [][\A h \in HandlerIds :
          /\ (CallbackStep(h)
                 /\ handlers'[h].callbackErrs[
                        Len(handlers'[h].callbackErrs)] = ErrCallback) =>
                /\ handlers'[h].pc = "header"
                /\ sock' = sock
                /\ listener' = listener
          /\ (/\ handlers[h].callbackErrs # <<>>
              /\ handlers[h].callbackErrs[
                        Len(handlers[h].callbackErrs)] = ErrCallback
              /\ handlers[h].pc = "returned"
              /\ handlers[h].err = Nil
              /\ handlers'[h] # handlers[h]) =>
                /\ handlers'[h].delivered =
                      Append(handlers[h].delivered,
                             SubSeq(handlers[h].dataBuffer, 1, handlers[h].n))
                /\ handlers'[h].pc = "header"]_vars

C24_Witness ==
    \E h \in HandlerIds :
        /\ Len(handlers[h].delivered) = 2
        /\ handlers[h].callbackErrs[1] = ErrCallback
        /\ handlers[h].delivered[2] = <<8, 9>>
        /\ IsOpen(handlers[h].socket)

\* ------------------------------------------------- read loop claims

\* C25: when Read has failed in the read loop of a connection, the loop
\* closes the connection and exits, the handler count of the listener goes
\* down by one, and the callback is never called for that connection again.
C25_ReadErrorEndsLoop ==
    [][\A h \in HandlerIds :
          /\ (/\ handlers[h].pc = "returned"
              /\ handlers[h].err # Nil
              /\ handlers'[h].pc # "returned") =>
                /\ handlers'[h].pc = "exited"
                /\ sock'[handlers[h].socket].state = "closed"
                /\ listener'.shutdownGroup = listener.shutdownGroup - 1
                /\ handlers'[h].delivered = handlers[h].delivered
          /\ handlers[h].pc = "exited" =>
                /\ handlers'[h].pc = "exited"
                /\ handlers'[h].delivered = handlers[h].delivered
                /\ handlers'[h].callbackErrs = handlers[h].callbackErrs
                /\ sock'[handlers[h].socket].state = "closed"]_vars

C25_Witness ==
    \E h \in HandlerIds :
        /\ handlers[h].pc = "exited"
        /\ handlers[h].err = EOF
        /\ handlers[h].delivered # <<>>
        /\ sock[handlers[h].socket].state = "closed"
        /\ listener.shutdownGroup = 0

\* The header that Read of handler h decodes in this step is complete.
HeaderComplete(h) ==
    /\ handlers[h].pc = "header"
    /\ IsOpen(handlers[h].socket)
    /\ sock[handlers[h].socket].inbound # <<>>
    /\ Len(handlers[h].incomingHeaderBuffer)
          + Len(sock[handlers[h].socket].inbound) >= headerByteSize

\* C26: when the decoder reports that it consumed zero bytes of the header,
\* or a negative count, Read closes the connection and returns
\* ErrZeroBytesReadHeader, respectively ErrLessThanZeroBytesReadHeader,
\* and reads no byte of a payload.
C26_DecodeFailureCloses ==
    [][\A h \in HandlerIds, fault \in DecodeFaults :
          (HeaderComplete(h) /\ ReadHeaderDecoding(h, fault)) =>
             /\ handlers'[h].pc = "returned"
             /\ handlers'[h].err =
                    IF fault = "zero" THEN ErrZeroBytesReadHeader
                    ELSE ErrLessThanZeroBytesReadHeader
             /\ sock'[handlers[h].socket].state = "closed"
             /\ handlers'[h].n = headerByteSize
             /\ handlers'[h].dataBuffer = handlers[h].dataBuffer]_vars

C26_Witness ==
    \E h \in HandlerIds :
        /\ handlers[h].pc = "returned"
        /\ handlers[h].err = ErrLessThanZeroBytesReadHeader
        /\ handlers[h].dataBuffer = <<>>
        /\ sock[handlers[h].socket].state = "closed"

\* ------------------------------------------------- codec claims

\* The least number of bytes whose unsigned values include every integer
\* from 0 to n.
MinBytes(n) == CHOOSE k \in 1..4 : Pow256(k) > n /\ (k = 1 \/ Pow256(k - 1) <= n)

C28_HeaderRoundTrip ==
    codec.op = "header" =>
        /\ ~panicked
        /\ codec.pc = "done" => codec.decoded = codec.value

\* C29: constructing a connection or a listener with a negative
\* MaxMessageSize fails with an error: nothing is returned, nothing
\* panics and no header width is derived.
C29_NegativeSizeRejected ==
    (/\ codec.op \in {"newTCPConn", "ListenTCP"}
     /\ codec.pc = "done"
     /\ codec.messageSize < 0) =>
        /\ ~panicked
        /\ codec.err # Nil
        /\ codec.made = "nothing"

\* ------------------------------------------------- configuration claims

StartedWithoutSocket(h) ==
    handlers[h].pc # "none" /\ handlers[h].socket = NoSocket

\* C32: after a transient error of Accept, with the listener not shut
\* down, the accept loop keeps running and goes on accepting and serving
\* connections: nothing that the failed Accept set off stops the process.
C32_AcceptErrorSurvived ==
    [][\A h \in HandlerIds :
          (/\ StartedWithoutSocket(h)
           /\ listener.shutdownChannel = "open"
           /\ ~panicked
           /\ ReadHeader(h)) => ~panicked']_vars

\* C40: a read loop is started only for a socket that Accept returned: no
\* handler is started with a connection that has no socket, and a failed
\* Accept starts no handler.
C40_HandlersHaveSockets ==
    \A h \in HandlerIds : ~StartedWithoutSocket(h)

\* C39: a Close of the listener that has begun returns, the callbacks
\* returning: the shutdown watchers close the accepted sockets, the blocked
\* Reads fail, the read loops exit and the handler count reaches zero.
C39_CloseReturns ==
    (listener.closePc = "wait") ~> (listener.closePc = "returned")

\* C37: the callback never gets a partial payload: a Read returns without
\* an error only with the whole announced payload, the callback gets what
\* such a Read returned, and after a Read that failed (the peer closed, or
\* a read error, between frames, inside the header or inside the payload)
\* the read loop closes the connection and exits without a callback.
C37_NoPartialPayload ==
    [][\A h \in HandlerIds :
          /\ (/\ handlers[h].pc = "body"
              /\ handlers'[h].pc = "returned"
              /\ handlers'[h].err = Nil) =>
                /\ Len(handlers'[h].dataBuffer) = handlers[h].msgLength
                /\ handlers'[h].n = handlers[h].msgLength
          /\ CallbackStep(h) =>
                /\ handlers[h].pc = "returned"
                /\ handlers[h].err = Nil
                /\ handlers[h].n = Len(handlers[h].dataBuffer)
                /\ handlers'[h].delivered =
                      Append(handlers[h].delivered, handlers[h].dataBuffer)
          /\ (/\ handlers[h].pc = "returned"
              /\ handlers[h].err # Nil
              /\ handlers'[h].pc # "returned") =>
                /\ handlers'[h].pc = "exited"
                /\ sock'[handlers[h].socket].state = "closed"
                /\ handlers'[h].delivered = handlers[h].delivered]_vars

C37_Witness ==
    \E h \in HandlerIds :
        /\ handlers[h].pc = "returned"
        /\ handlers[h].err = EOF
        /\ handlers[h].n = 1
        /\ Len(handlers[h].dataBuffer) = 1
        /\ handlers[h].delivered = <<>>
        /\ sock[handlers[h].socket].state = "closed"

\* ------------------------------------------------- Reopen claims

\* The sockets that hold bytes of the current call of caller t.
SocketsWritten(t) == {s \in SockIds : OwnPositions(s, t) # {}}

\* C38: a Write that runs while Reopen runs on the same connection fails,
\* or writes its whole frame to one socket: it never writes the first part
\* of a frame to the old socket and the rest to the newly dialed one.
C38_FrameOnOneSocket ==
    \A t \in Callers : Cardinality(SocketsWritten(t)) <= 1

\* ------------------------------------------------- BuffTCPListener claims

\* C33: on a connection a BuffTCPListener accepted, each whole message of
\* the client, a header followed by a payload that is not empty, results
\* in one call of the callback with the payload of that message.
C33_MessageDelivered ==
    [][\A h \in HandlerIds :
          (/\ handlers[h].pc = "callback"
           /\ handlers[h].msgLength > 0
           /\ handlers'[h] # handlers[h]) =>
              handlers'[h].delivered =
                  Append(handlers[h].delivered, handlers[h].dataBuffer)]_vars

\* ----------------------------------------------------- BuffManager claims

\* A WriteTo of goroutine t returns in this step.
WriteToReturns(t) == callers[t].pc = "after" /\ callers'[t].pc = "idle"

\* C34: a WriteTo for an address with no cached connection opens the
\* connection and caches it, also when goroutines call it at the same
\* time: no WriteTo fails because another goroutine dialed first.
C34_NoLostDial ==
    \A t \in Callers :
        ~(/\ callers[t].op = "WriteTo"
          /\ callers[t].pc = "idle"
          /\ callers[t].ret.err = ErrAlreadyOpened)

\* C35: a WriteTo in which a socket write failed returns an error, the
\* error of the write and not the result of the Close; it never returns
\* fewer bytes than the length of the frame together with a nil error.
C35_WriteErrorReturned ==
    [][\A t \in Callers :
          WriteToReturns(t) =>
              /\ callers[t].writeError # Nil =>
                    callers'[t].ret.err = callers[t].writeError
              /\ callers'[t].ret.err = Nil =>
                    callers'[t].ret.n = callers[t].toWriteLen]_vars

\* C36: when a WriteTo hit a write error, or persist is false, the
\* connection of the call is closed and the address is out of
\* dialedConnections when it returns; a later WriteTo finds the address
\* missing and dials, and no WriteTo takes a closed connection from the map.
C36_BrokenConnectionDisposed ==
    [][\A t \in Callers :
          /\ (WriteToReturns(t)
               /\ (callers[t].writeError # Nil \/ ~callers[t].persist)) =>
                 /\ callers[t].c \notin dialedConnections'
                 /\ sock'[callers[t].socket].state = "closed"
          /\ (callers[t].pc = "idle" /\ callers'[t].pc = "dialOut") =>
                 callers'[t].c \notin dialedConnections
          /\ (callers[t].pc = "idle" /\ callers'[t].pc = "encode") =>
                 IsOpen(callers'[t].socket)
          /\ (callers[t].pc = "dialOut" /\ callers'[t].pc = "encode") =>
                 /\ sock[callers'[t].socket].state = "unused"
                 /\ sock'[callers'[t].socket].state = "open"
                 /\ conn'[callers[t].c].socket = callers'[t].socket]_vars

\* A WriteTo has failed on its connection and returned, the address is out
\* of the map, and the next WriteTo of that goroutine has dialed a new
\* connection for it.
C36_Witness ==
    \E t \in Callers :
        /\ callers[t].op = "WriteTo"
        /\ callers[t].calls = 2
        /\ callers[t].pc = "encode"
        /\ callers[t].ret.n < 2
        /\ callers[t].socket = 2
        /\ sock[1].state = "closed"
        /\ sock[1].peerGone
        /\ conn[callers[t].c].socket = 2
        /\ \A u \in Callers \ {t} : callers[u].calls = 0

====
